---- MODULE Spec2Model ----
(***************************************************************************)
(* Model of the ladonsqlmanager policy store: the entity builder and       *)
(* template compiler, the relational tables with their constraints, the    *)
(* transactional write path (Create / Update / Delete) and the read and    *)
(* candidate queries of SQLManager.                                        *)
(*                                                                         *)
(* Go strings are modelled as sequences of one-character strings.  The     *)
(* regular-expression dialect is the fragment the templates of this model  *)
(* use: literal characters, backslash escapes, '.', '*' on a single atom,  *)
(* capture groups that are never quantified, and the anchors '^' and '$'.  *)
(* A SHA-256 hex digest is modelled as an injective tag of its input       *)
(* (no collisions), always 64 characters long.                             *)
(***************************************************************************)
EXTENDS Integers, Sequences, FiniteSets, TLC

(***************************************************************************)
(* Field size constants and effects (models/constants.go)                  *)
(***************************************************************************)
PolicyIDMaxLength == 255
EntityIDMaxLength == 64
CompiledMaxLength == 511
TemplateMaxLength == 511
Sha256HexLength == 64

EffectAllow == <<"a","l","l","o","w">>
EffectDeny == <<"d","e","n","y">>

itemTypeSubject == "subject"
itemTypeAction == "action"
itemTypeResource == "resource"
Kinds == <<itemTypeSubject, itemTypeAction, itemTypeResource>>
KindSet == {itemTypeSubject, itemTypeAction, itemTypeResource}

(***************************************************************************)
(* String helpers                                                          *)
(***************************************************************************)
EmptyStr == <<>>
NUL == "NUL"

IsSpace(c) == c \in {" ", "\t", "\n", "\r"}

RECURSIVE TrimLeft(_)
TrimLeft(s) ==
    IF s # <<>> /\ IsSpace(Head(s)) THEN TrimLeft(Tail(s)) ELSE s

RECURSIVE TrimRight(_)
TrimRight(s) ==
    IF s # <<>> /\ IsSpace(s[Len(s)])
    THEN TrimRight(SubSeq(s, 1, Len(s) - 1))
    ELSE s

\* Variant of sanitizeTemplate that trims leading whitespace only
sanitizeTemplate_LeftOnly(template) == TrimLeft(template)

\* strings.TrimSpace
sanitizeTemplate(template) == TrimRight(TrimLeft(template))

\* strings.Index(s, string(c)) >= 0
ContainsChar(s, c) == \E i \in 1..Len(s) : s[i] = c

(***************************************************************************)
(* ladon/compiler: delimiterIndices, regexp.QuoteMeta, regexp.Compile and  *)
(* CompileRegex, as called by EntityBuilder.CompileTemplate.               *)
(***************************************************************************)
\* Scan of the template for balanced delimiter pairs.  A pair is recorded
\* as <<a, b>>: a is the position of the opening delimiter and b the
\* position just after the matching closing delimiter (1-based).
RECURSIVE delimiterScan(_, _, _, _, _, _, _)
delimiterScan(s, ds, de, i, level, idx, idxs) ==
    IF i > Len(s)
    THEN [err |-> (level # 0), idxs |-> idxs]
    ELSE IF s[i] = ds
    THEN delimiterScan(s, ds, de, i + 1, level + 1,
                       IF level + 1 = 1 THEN i ELSE idx, idxs)
    ELSE IF s[i] = de
    THEN IF level - 1 = 0
         THEN delimiterScan(s, ds, de, i + 1, 0, idx,
                            Append(idxs, <<idx, i + 1>>))
         ELSE IF level - 1 < 0
         THEN [err |-> TRUE, idxs |-> <<>>]
         ELSE delimiterScan(s, ds, de, i + 1, level - 1, idx, idxs)
    ELSE delimiterScan(s, ds, de, i + 1, level, idx, idxs)

delimiterIndices(s, ds, de) == delimiterScan(s, ds, de, 1, 0, 0, <<>>)

RegexMeta == {"\\", ".", "+", "*", "?", "(", ")", "|", "[", "]", "{", "}", "^", "$"}

RECURSIVE QuoteMeta(_)
QuoteMeta(s) ==
    IF s = <<>> THEN <<>>
    ELSE (IF Head(s) \in RegexMeta THEN <<"\\", Head(s)>> ELSE <<Head(s)>>)
         \o QuoteMeta(Tail(s))

\* regexp.Compile accepts the expression: every '*' has an operand that is
\* not itself a repetition and not an opening parenthesis, parentheses are
\* balanced, and no backslash is left dangling.  prev is "none" when there
\* is nothing to repeat, "atom" after an operand, "star" after a repetition.
RECURSIVE RegexpScanOK(_, _, _, _)
RegexpScanOK(re, i, depth, prev) ==
    IF i > Len(re) THEN depth = 0
    ELSE IF re[i] = "\\"
    THEN i + 1 <= Len(re) /\ RegexpScanOK(re, i + 2, depth, "atom")
    ELSE IF re[i] = "("
    THEN RegexpScanOK(re, i + 1, depth + 1, "none")
    ELSE IF re[i] = ")"
    THEN depth > 0 /\ RegexpScanOK(re, i + 1, depth - 1, "atom")
    ELSE IF re[i] = "*"
    THEN prev = "atom" /\ RegexpScanOK(re, i + 1, depth, "star")
    ELSE RegexpScanOK(re, i + 1, depth, "atom")

RegexpCompileOK(re) == RegexpScanOK(re, 1, 0, "none")

\* The loop of CompileRegex over the delimiter pairs: appends
\* QuoteMeta(raw) "(" patt ")" per pair and compiles "^patt$".
RECURSIVE CompileLoop(_, _, _, _, _)
CompileLoop(tpl, idxs, k, end, pattern) ==
    IF k > Len(idxs)
    THEN [err |-> FALSE,
          pattern |-> pattern \o QuoteMeta(SubSeq(tpl, end, Len(tpl))) \o <<"$">>]
    ELSE LET a == idxs[k][1]
             b == idxs[k][2]
             raw == SubSeq(tpl, end, a - 1)
             patt == SubSeq(tpl, a + 1, b - 2)
         IN IF ~RegexpCompileOK(<<"^">> \o patt \o <<"$">>)
            THEN [err |-> TRUE, pattern |-> <<>>]
            ELSE CompileLoop(tpl, idxs, k + 1, b,
                             pattern \o QuoteMeta(raw) \o <<"(">> \o patt \o <<")">>)

\* compiler.CompileRegex(tpl, delimiterStart, delimiterEnd); re is the
\* source of the compiled expression (regexp.String()).
CompileRegex(tpl, ds, de) ==
    LET di == delimiterIndices(tpl, ds, de)
    IN IF di.err THEN [err |-> TRUE, re |-> <<>>]
       ELSE LET r == CompileLoop(tpl, di.idxs, 1, 1, <<"^">>)
            IN IF r.err \/ ~RegexpCompileOK(r.pattern)
               THEN [err |-> TRUE, re |-> <<>>]
               ELSE [err |-> FALSE, re |-> r.pattern]

(***************************************************************************)
(* The storage engine's regular-expression operator ('~' on PostgreSQL,    *)
(* REGEXP BINARY on MySQL): value matches when the expression matches some *)
(* substring of it; '^' and '$' pin the match to the ends of the value.    *)
(***************************************************************************)
AtomLen(re, i) == IF re[i] = "\\" THEN 2 ELSE 1

AtomMatches(re, i, c) ==
    IF re[i] = "\\" THEN re[i + 1] = c
    ELSE IF re[i] = "." THEN TRUE
    ELSE re[i] = c

RECURSIVE MatchHere(_, _, _, _)
MatchHere(re, i, s, j) ==
    IF i > Len(re) THEN TRUE
    ELSE IF re[i] = "^" THEN j = 1 /\ MatchHere(re, i + 1, s, j)
    ELSE IF re[i] = "$" THEN j = Len(s) + 1 /\ MatchHere(re, i + 1, s, j)
    ELSE IF re[i] \in {"(", ")"} THEN MatchHere(re, i + 1, s, j)
    ELSE LET w == AtomLen(re, i)
             starred == i + w <= Len(re) /\ re[i + w] = "*"
         IN IF starred
            THEN \/ MatchHere(re, i + w + 1, s, j)
                 \/ /\ j <= Len(s)
                    /\ AtomMatches(re, i, s[j])
                    /\ MatchHere(re, i, s, j + 1)
            ELSE /\ j <= Len(s)
                 /\ AtomMatches(re, i, s[j])
                 /\ MatchHere(re, i + w, s, j + 1)

RegexMatch(re, s) == \E k \in 1..(Len(s) + 1) : MatchHere(re, 1, s, k)

(***************************************************************************)
(* EntityBuilder and EntityBuilderDirector                                 *)
(***************************************************************************)
\* An identifier is either the hex SHA-256 of a string (hash = TRUE, s the
\* hashed string) or a literal string (hash = FALSE).
NoID == [hash |-> FALSE, s |-> <<>>]
Sha256Hex(t) == [hash |-> TRUE, s |-> t]
IDLen(id) == IF id.hash THEN Sha256HexLength ELSE Len(id.s)

ZeroEntity == [ID |-> NoID, HasRegex |-> FALSE, Compiled |-> <<>>, Template |-> <<>>]

NewEntityBuilder ==
    [template |-> <<>>, startDelim |-> NUL, endDelim |-> NUL, id |-> NoID,
     compiled |-> <<>>, hasRegex |-> FALSE, err |-> "nil"]

\* Variant of WithTemplate that stores the template as given
WithTemplate_NoTrim(b, template) ==
    IF b.err # "nil" THEN b
    ELSE IF template = <<>>
    THEN [b EXCEPT !.template = template,
                   !.err = "template cannot be empty after sanitization"]
    ELSE [b EXCEPT !.template = template]

WithTemplate(b, template) ==
    IF b.err # "nil" THEN b
    ELSE LET t == sanitizeTemplate(template)
         IN IF t = <<>>
            THEN [b EXCEPT !.template = t,
                           !.err = "template cannot be empty after sanitization"]
            ELSE [b EXCEPT !.template = t]

\* Variant of WithDelimiters that sets the delimiters whatever b.err is
WithDelimiters_IgnoreError(b, startDelim, endDelim) ==
    [b EXCEPT !.startDelim = startDelim, !.endDelim = endDelim]

WithDelimiters(b, startDelim, endDelim) ==
    IF b.err # "nil" THEN b
    ELSE [b EXCEPT !.startDelim = startDelim, !.endDelim = endDelim]

GenerateID(b) ==
    IF b.err # "nil" THEN b
    ELSE IF b.template = <<>>
    THEN [b EXCEPT !.err = "template must be set before generating ID"]
    ELSE [b EXCEPT !.id = Sha256Hex(b.template)]

\* Variant of CompileTemplate with the comparison "Index(...) >= -1"
CompileTemplate_IndexFromMinusOne(b) ==
    IF b.err # "nil" THEN b
    ELSE IF b.template = <<>>
    THEN [b EXCEPT !.err = "template must be set before compilation"]
    ELSE LET c == CompileRegex(b.template, b.startDelim, b.endDelim)
         IN IF c.err
            THEN [b EXCEPT !.err = "compile error"]
            ELSE [b EXCEPT !.compiled = c.re, !.hasRegex = TRUE]

CompileTemplate(b) ==
    IF b.err # "nil" THEN b
    ELSE IF b.template = <<>>
    THEN [b EXCEPT !.err = "template must be set before compilation"]
    ELSE LET c == CompileRegex(b.template, b.startDelim, b.endDelim)
         IN IF c.err
            THEN [b EXCEPT !.err = "compile error"]
            ELSE [b EXCEPT !.compiled = c.re,
                           !.hasRegex = ContainsChar(b.template, b.startDelim)]

\* Variant of WithCustomID that stores the content hash instead of the id
WithCustomID_Hash(b, id) ==
    IF b.err # "nil" THEN b
    ELSE IF id = NoID
    THEN [b EXCEPT !.err = "custom ID cannot be empty"]
    ELSE [b EXCEPT !.id = Sha256Hex(b.template)]

WithCustomID(b, id) ==
    IF b.err # "nil" THEN b
    ELSE IF id = NoID
    THEN [b EXCEPT !.err = "custom ID cannot be empty"]
    ELSE [b EXCEPT !.id = id]

\* BaseEntity.Validate: "nil" or the first violated rule
BaseEntityValidate(e) ==
    IF e.ID = NoID THEN "entity ID cannot be empty"
    ELSE IF IDLen(e.ID) > EntityIDMaxLength THEN "entity ID exceeds maximum length"
    ELSE IF e.Compiled = <<>> THEN "compiled field cannot be empty"
    ELSE IF Len(e.Compiled) > CompiledMaxLength THEN "compiled field exceeds maximum length"
    ELSE IF e.Template = <<>> THEN "template field cannot be empty"
    ELSE IF Len(e.Template) > TemplateMaxLength THEN "template field exceeds maximum length"
    ELSE "nil"

\* Variant of Build that does not validate the entity it has assembled
Build_NoValidate(b) ==
    IF b.err # "nil" THEN [entity |-> ZeroEntity, err |-> b.err]
    ELSE IF b.template = <<>>
    THEN [entity |-> ZeroEntity, err |-> "template is required"]
    ELSE IF b.id = NoID
    THEN [entity |-> ZeroEntity, err |-> "ID is required"]
    ELSE IF b.compiled = <<>>
    THEN [entity |-> ZeroEntity, err |-> "compiled template is required"]
    ELSE [entity |-> [ID |-> b.id, HasRegex |-> b.hasRegex,
                      Compiled |-> b.compiled, Template |-> b.template],
          err |-> "nil"]

Build(b) ==
    IF b.err # "nil" THEN [entity |-> ZeroEntity, err |-> b.err]
    ELSE IF b.template = <<>>
    THEN [entity |-> ZeroEntity, err |-> "template is required"]
    ELSE IF b.id = NoID
    THEN [entity |-> ZeroEntity, err |-> "ID is required"]
    ELSE IF b.compiled = <<>>
    THEN [entity |-> ZeroEntity, err |-> "compiled template is required"]
    ELSE LET e == [ID |-> b.id, HasRegex |-> b.hasRegex,
                   Compiled |-> b.compiled, Template |-> b.template]
         IN IF BaseEntityValidate(e) # "nil"
            THEN [entity |-> ZeroEntity, err |-> BaseEntityValidate(e)]
            ELSE [entity |-> e, err |-> "nil"]

\* Variant of Reset that leaves the recorded error in place
Reset_KeepError(b) == [NewEntityBuilder EXCEPT !.err = b.err]

Reset(b) == NewEntityBuilder

\* EntityBuilderDirector.BuildStandardEntity run on the director's builder b:
\* the builder as the chain leaves it, and what Build returns.
BuildStandardEntity(b, template, startDelim, endDelim) ==
    LET fin == CompileTemplate(GenerateID(WithDelimiters(
                   WithTemplate(Reset(b), template), startDelim, endDelim)))
        r == Build(fin)
    IN [b |-> fin, entity |-> r.entity, err |-> r.err]

\* EntityBuilderDirector.BuildEntityWithCustomID run on the builder b
BuildEntityWithCustomID(b, template, id, startDelim, endDelim) ==
    LET fin == CompileTemplate(WithDelimiters(WithCustomID(
                   WithTemplate(Reset(b), template), id), startDelim, endDelim))
        r == Build(fin)
    IN [b |-> fin, entity |-> r.entity, err |-> r.err]

(***************************************************************************)
(* The relational store: seven tables (models/policy.go, base_types.go,    *)
(* relations.go).  Timestamps are left out; deleted_at is the flag Deleted. *)
(* Entity rows carry no Deleted flag: no statement of the manager deletes  *)
(* an entity.                                                              *)
(***************************************************************************)
EmptyDB ==
    [policy |-> {}, ent |-> [k \in KindSet |-> {}], rel |-> [k \in KindSet |-> {}]]

\* JSONText values: the SQL NULL / Go nil, or a JSON object with these keys
JSONNull == [null |-> TRUE, keys |-> {}]
JSONEmptyObject == [null |-> FALSE, keys |-> {}]
\* ladon.Conditions as the manager sees it: the nil map, or a map with keys
NilConditions == [nil |-> TRUE, keys |-> {}]
Conditions(keys) == [nil |-> FALSE, keys |-> keys]
NilMeta == "nil"

\* json.Marshal(&cs) of a non-nil ladon.Conditions
MarshalConditions(cs) == [null |-> FALSE, keys |-> cs.keys]

\* json.Unmarshal into the ladon.Conditions{} of convertPolicyToLadon
UnmarshalConditions(j) == IF j.null THEN Conditions({}) ELSE Conditions(j.keys)

\* Policy.Validate on the row about to be inserted
PolicyValidate(row) ==
    IF row.ID = <<>> THEN "policy ID cannot be empty"
    ELSE IF Len(row.ID) > PolicyIDMaxLength THEN "policy ID exceeds maximum length"
    ELSE IF row.Description = <<>> THEN "policy description cannot be empty"
    ELSE IF row.Effect # EffectAllow /\ row.Effect # EffectDeny
    THEN "effect must be 'allow' or 'deny'"
    ELSE IF row.Conditions.null THEN "policy conditions cannot be nil"
    ELSE "nil"

\* Variant of PolicyModel that stores nil conditions as NULL
PolicyModel_NullConditions(pol) ==
    [ID |-> pol.ID,
     Description |-> pol.Description,
     Effect |-> pol.Effect,
     Conditions |-> IF pol.Conditions = NilConditions THEN JSONNull
                    ELSE MarshalConditions(pol.Conditions),
     Meta |-> IF pol.Meta = NilMeta THEN "{}" ELSE pol.Meta,
     Deleted |-> FALSE]

\* The policy row that create() builds from the ladon.Policy
PolicyModel(pol) ==
    [ID |-> pol.ID,
     Description |-> pol.Description,
     Effect |-> pol.Effect,
     Conditions |-> IF pol.Conditions = NilConditions THEN JSONEmptyObject
                    ELSE MarshalConditions(pol.Conditions),
     Meta |-> IF pol.Meta = NilMeta THEN "{}" ELSE pol.Meta,
     Deleted |-> FALSE]

\* Table constraints checked by an INSERT
PolicyInsertOK(d, row) ==
    /\ \A r \in d.policy : r.ID # row.ID
    /\ row.Effect \in {EffectAllow, EffectDeny}
    /\ ~row.Conditions.null

EntityInsertOK(d, kind, row) ==
    /\ \A r \in d.ent[kind] : r.ID # row.ID
    /\ \A r \in d.ent[kind] : r.Compiled # row.Compiled
    /\ \A r \in d.ent[kind] : r.Template # row.Template

RelationInsertOK(d, kind, row) ==
    /\ row \notin d.rel[kind]
    /\ \E r \in d.policy : r.ID = row.Policy
    /\ \E e \in d.ent[kind] : e.ID = row.Entity

\* Variant of Apply in which deleting a policy also deletes the entity rows
\* it is related to
Apply_DeleteEntities(d, w) ==
    CASE w.t = "insertPolicy" -> [d EXCEPT !.policy = @ \cup {w.row}]
      [] w.t = "deletePolicy" ->
           [d EXCEPT !.policy =
               {IF r.ID = w.id /\ ~r.Deleted THEN [r EXCEPT !.Deleted = TRUE] ELSE r
                   : r \in @},
                     !.ent = [k \in KindSet |->
                                {e \in d.ent[k] :
                                    [Policy |-> w.id, Entity |-> e.ID] \notin d.rel[k]}]]
      [] w.t = "insertEntity" -> [d EXCEPT !.ent[w.kind] = @ \cup {w.row}]
      [] w.t = "insertRelation" -> [d EXCEPT !.rel[w.kind] = @ \cup {w.row}]

\* One write statement of a transaction applied to the tables.
\* "deletePolicy" is tx.Delete(&models.Policy{}, "id = ?", id): Policy has a
\* gorm.DeletedAt column, so the statement is
\* UPDATE ladon_policy SET deleted_at = now WHERE id = ? AND deleted_at IS NULL.
Apply(d, w) ==
    CASE w.t = "insertPolicy" -> [d EXCEPT !.policy = @ \cup {w.row}]
      [] w.t = "deletePolicy" ->
           [d EXCEPT !.policy =
               {IF r.ID = w.id /\ ~r.Deleted THEN [r EXCEPT !.Deleted = TRUE] ELSE r
                   : r \in @}]
      [] w.t = "insertEntity" -> [d EXCEPT !.ent[w.kind] = @ \cup {w.row}]
      [] w.t = "insertRelation" -> [d EXCEPT !.rel[w.kind] = @ \cup {w.row}]

RECURSIVE ApplyAll(_, _)
ApplyAll(d, log) ==
    IF log = <<>> THEN d ELSE ApplyAll(Apply(d, Head(log)), Tail(log))

\* What the statements of a transaction see: the committed tables with the
\* transaction's own writes applied.
View(d, log) == ApplyAll(d, log)

WInsertPolicy(row) == [t |-> "insertPolicy", id |-> row.ID, kind |-> "", row |-> row]
WDeletePolicy(id) == [t |-> "deletePolicy", id |-> id, kind |-> "", row |-> <<>>]
WInsertEntity(kind, row) == [t |-> "insertEntity", id |-> <<>>, kind |-> kind, row |-> row]
WInsertRelation(kind, row) == [t |-> "insertRelation", id |-> <<>>, kind |-> kind, row |-> row]

\* factory.CreateRelation(policyID, entityID)
CreateRelation(policyID, entityID) == [Policy |-> policyID, Entity |-> entityID]

(***************************************************************************)
(* Entity factories, relation strategies and their registries              *)
(* (part_002, relation_strategy.go).  A factory or strategy instance is    *)
(* its concrete type (kind) and an identity (inst); a registry is the Go   *)
(* map from type name to instance.                                         *)
(***************************************************************************)
ErrInvalidRelationType == "invalid relation type"

Factory(kind, inst) == [kind |-> kind, inst |-> inst]
Strategy(kind, inst) == [kind |-> kind, inst |-> inst]
NoFactory == Factory("nil", 0)
NoStrategy == Strategy("nil", 0)

\* A pointer to models.PolicySubjectRel / PolicyActionRel / PolicyResourceRel
PolicyRel(kind, policyID, entityID) ==
    [rel |-> kind, Policy |-> policyID, Entity |-> entityID]

\* SubjectFactory / ActionFactory / ResourceFactory . CreateRelation
FactoryCreateRelation(f, policyID, entityID) == PolicyRel(f.kind, policyID, entityID)

\* Variant of StrategyPersistRelation without the type assertion
StrategyPersistRelation_AnyKind(s, relation, d) ==
    LET row == CreateRelation(relation.Policy, relation.Entity)
    IN IF row \in d.rel[s.kind] THEN [db |-> d, err |-> "nil"]
       ELSE IF RelationInsertOK(d, s.kind, row)
       THEN [db |-> Apply(d, WInsertRelation(s.kind, row)), err |-> "nil"]
       ELSE [db |-> d, err |-> "constraint violation: relation"]

\* SubjectRelationStrategy / ... . PersistRelation run on the tables d:
\* the type assertion, then Where(policy, entity).FirstOrCreate(rel)
StrategyPersistRelation(s, relation, d) ==
    IF relation.rel # s.kind THEN [db |-> d, err |-> ErrInvalidRelationType]
    ELSE LET row == CreateRelation(relation.Policy, relation.Entity)
         IN IF row \in d.rel[s.kind] THEN [db |-> d, err |-> "nil"]
            ELSE IF RelationInsertOK(d, s.kind, row)
            THEN [db |-> Apply(d, WInsertRelation(s.kind, row)), err |-> "nil"]
            ELSE [db |-> d, err |-> "constraint violation: relation"]

\* Variant of RegisterFactory that keeps an instance already registered
RegisterFactory_KeepFirst(r, entityType, factory) ==
    [k \in DOMAIN r \cup {entityType} |-> IF k \in DOMAIN r THEN r[k] ELSE factory]

RegisterFactory(r, entityType, factory) ==
    [k \in DOMAIN r \cup {entityType} |-> IF k = entityType THEN factory ELSE r[k]]

GetFactory(r, entityType) ==
    IF entityType \in DOMAIN r THEN [factory |-> r[entityType], exists |-> TRUE]
    ELSE [factory |-> NoFactory, exists |-> FALSE]

\* GetSupportedTypes: the slices a loop over the map can build, every key
\* once, in any order
FactorySupportedTypes(r) ==
    {s \in [1..Cardinality(DOMAIN r) -> DOMAIN r] :
        \A i, j \in DOMAIN s : s[i] = s[j] => i = j}

NewEntityFactoryRegistry ==
    RegisterFactory(RegisterFactory(RegisterFactory(<<>>,
        itemTypeSubject, Factory(itemTypeSubject, 0)),
        itemTypeAction, Factory(itemTypeAction, 0)),
        itemTypeResource, Factory(itemTypeResource, 0))

RegisterStrategy(r, relationType, strategy) ==
    [k \in DOMAIN r \cup {relationType} |-> IF k = relationType THEN strategy ELSE r[k]]

GetStrategy(r, relationType) ==
    IF relationType \in DOMAIN r THEN [strategy |-> r[relationType], exists |-> TRUE]
    ELSE [strategy |-> NoStrategy, exists |-> FALSE]

StrategySupportedTypes(r) ==
    {s \in [1..Cardinality(DOMAIN r) -> DOMAIN r] :
        \A i, j \in DOMAIN s : s[i] = s[j] => i = j}

NewRelationStrategyRegistry ==
    RegisterStrategy(RegisterStrategy(RegisterStrategy(<<>>,
        itemTypeSubject, Strategy(itemTypeSubject, 0)),
        itemTypeAction, Strategy(itemTypeAction, 0)),
        itemTypeResource, Strategy(itemTypeResource, 0))

\* RelationTypeDetector.DetectAndGetStrategy on the registry r
DetectAndGetStrategy(r, relation) ==
    IF relation.rel \in KindSet /\ GetStrategy(r, relation.rel).exists
    THEN [strategy |-> GetStrategy(r, relation.rel).strategy, err |-> "nil"]
    ELSE [strategy |-> NoStrategy, err |-> ErrInvalidRelationType]

(***************************************************************************)
(* Read side: soft-delete scope, Preload, conversion and the queries       *)
(***************************************************************************)
\* Variant of Visible without the soft-delete scope (Unscoped)
Visible_Unscoped(d) == d.policy

\* GORM adds deleted_at IS NULL to every query on the Policy model
Visible(d) == {r \in d.policy : ~r.Deleted}

\* Preload("Subjects" / "Actions" / "Resources") of one policy row
Preload(d, row, kind) ==
    {e \in d.ent[kind] : CreateRelation(row.ID, e.ID) \in d.rel[kind]}

\* Variant of convertPolicyToLadon that copies the compiled expressions
convertPolicyToLadon_Compiled(d, row) ==
    [ID |-> row.ID,
     Description |-> row.Description,
     Effect |-> row.Effect,
     Conditions |-> UnmarshalConditions(row.Conditions),
     Meta |-> row.Meta,
     Subjects |-> {e.Compiled : e \in Preload(d, row, itemTypeSubject)},
     Actions |-> {e.Compiled : e \in Preload(d, row, itemTypeAction)},
     Resources |-> {e.Compiled : e \in Preload(d, row, itemTypeResource)}]

\* The template lists are returned in storage order, which SQL leaves open;
\* primary keys rule out repeated rows, so a list is modelled as a set.
convertPolicyToLadon(d, row) ==
    [ID |-> row.ID,
     Description |-> row.Description,
     Effect |-> row.Effect,
     Conditions |-> UnmarshalConditions(row.Conditions),
     Meta |-> row.Meta,
     Subjects |-> {e.Template : e \in Preload(d, row, itemTypeSubject)},
     Actions |-> {e.Template : e \in Preload(d, row, itemTypeAction)},
     Resources |-> {e.Template : e \in Preload(d, row, itemTypeResource)}]

convertPoliciesToLadon(d, rows) == {convertPolicyToLadon(d, r) : r \in rows}

PostgresDrivers == {"postgres", "pg", "pgx"}
SupportedDrivers == PostgresDrivers \cup {"mysql"}

\* The regex operator of the switch on s.driverName
MatchOperator(driver) ==
    IF driver \in PostgresDrivers THEN "~"
    ELSE IF driver = "mysql" THEN "REGEXP BINARY"
    ELSE "none"

\* Variant of EntityMatches that looks for the template inside the value
EntityMatches_Contains(driver, e, value) ==
    (e.HasRegex = TRUE /\ RegexMatch(e.Compiled, value))
    \/ (e.HasRegex = FALSE /\ RegexMatch(QuoteMeta(e.Template), value))

\* Variant of EntityMatches with no condition on the joined entity
EntityMatches_Any(driver, e, value) == TRUE

\* The WHERE clause of buildRegexQuery and of FindRequestCandidates on one
\* joined entity row
EntityMatches(driver, e, value) ==
    IF MatchOperator(driver) = "~"
    THEN (e.HasRegex = TRUE /\ RegexMatch(e.Compiled, value))
         \/ (e.HasRegex = FALSE /\ e.Template = value)
    ELSE IF MatchOperator(driver) = "REGEXP BINARY"
    THEN (e.HasRegex = TRUE /\ RegexMatch(e.Compiled, value))
         \/ (e.HasRegex = FALSE /\ e.Template = value)
    ELSE TRUE

\* policy JOIN relation JOIN entity WHERE <match>, for one entity kind
\* Variant of JoinRows that joins the entity tables of all kinds
JoinRows_AnyKind(d, driver, kind, value) ==
    {pe \in Visible(d) \X UNION {d.ent[k] : k \in KindSet} :
        /\ \E k \in KindSet : CreateRelation(pe[1].ID, pe[2].ID) \in d.rel[k]
        /\ EntityMatches(driver, pe[2], value)}

JoinRows(d, driver, kind, value) ==
    {pe \in Visible(d) \X d.ent[kind] :
        /\ CreateRelation(pe[1].ID, pe[2].ID) \in d.rel[kind]
        /\ EntityMatches(driver, pe[2], value)}

\* Variant of Distinct that keeps one result row per joined entity row
Distinct_Off(rows) == rows

\* SELECT DISTINCT ladon_policy.*: the joined rows projected on the policy
\* columns, equal rows collapsed
Distinct(rows) == {<<pe[1], ZeroEntity>> : pe \in rows}

\* query.Find(&policies) and convertPoliciesToLadon: one list element per
\* result row; len is the length of the returned list
Find(d, rows) ==
    [err |-> "nil",
     policies |-> convertPoliciesToLadon(d, {x[1] : x \in rows}),
     len |-> Cardinality(rows)]

ErrInvalidDriver == "invalid drivername specified"
ErrResourceNotFound == "resource not found"

FindRequestCandidates(d, driver, r) ==
    IF driver \notin SupportedDrivers
    THEN [err |-> ErrInvalidDriver, policies |-> {}, len |-> 0]
    ELSE Find(d, Distinct(JoinRows(d, driver, itemTypeSubject, r.Subject)))

\* Variant of FindPoliciesForSubject that runs the query whatever the driver
FindPoliciesForSubject_AnyDriver(d, driver, subject) ==
    Find(d, Distinct(JoinRows(d, driver, itemTypeSubject, subject)))

FindPoliciesForSubject(d, driver, subject) ==
    IF driver \notin SupportedDrivers
    THEN [err |-> ErrInvalidDriver, policies |-> {}, len |-> 0]
    ELSE Find(d, Distinct(JoinRows(d, driver, itemTypeSubject, subject)))

FindPoliciesForResource(d, driver, resource) ==
    IF driver \notin SupportedDrivers
    THEN [err |-> ErrInvalidDriver, policies |-> {}, len |-> 0]
    ELSE Find(d, Distinct(JoinRows(d, driver, itemTypeResource, resource)))

\* Variant of Get that answers a missing row with no policy and no error
Get_NoError(d, id) ==
    LET rows == {r \in Visible(d) : r.ID = id}
    IN [err |-> "nil", policies |-> convertPoliciesToLadon(d, rows)]

Get(d, id) ==
    LET rows == {r \in Visible(d) : r.ID = id}
    IN IF rows = {}
       THEN [err |-> ErrResourceNotFound, policies |-> {}]
       ELSE [err |-> "nil", policies |-> convertPoliciesToLadon(d, rows)]

\* Byte order of the characters used in policy ids (ORDER BY id)
AsciiOrder ==
    <<" ", "*", ".", "0", "1", "2", "3", "4", "5", "6", "7", "8", "9", ":", "<", ">",
      "a", "b", "c", "d", "e", "f", "g", "h", "i", "j", "k", "l", "m", "n", "o", "p",
      "q", "r", "s", "t", "u", "v", "w", "x", "y", "z", "{", "}">>

Code(c) == CHOOSE n \in 1..Len(AsciiOrder) : AsciiOrder[n] = c

RECURSIVE StrLess(_, _)
StrLess(a, b) ==
    IF b = <<>> THEN FALSE
    ELSE IF a = <<>> THEN TRUE
    ELSE IF Head(a) = Head(b) THEN StrLess(Tail(a), Tail(b))
    ELSE Code(Head(a)) < Code(Head(b))

\* The rows in ascending id order
RECURSIVE SortByID(_)
SortByID(rows) ==
    IF rows = {} THEN <<>>
    ELSE LET m == CHOOSE r \in rows : \A q \in rows \ {r} : StrLess(r.ID, q.ID)
         IN <<m>> \o SortByID(rows \ {m})

\* Variant of GetAll that orders the rows and applies the limit but skips
\* nothing
GetAll_NoOffset(d, limit, offset) ==
    LET sorted == SortByID(Visible(d))
        to == IF limit < 0 THEN Len(sorted)
              ELSE IF limit < Len(sorted) THEN limit
              ELSE Len(sorted)
        page == SubSeq(sorted, 1, to)
    IN [err |-> "nil",
        policies |-> [n \in 1..Len(page) |-> convertPolicyToLadon(d, page[n])]]

\* Preload x3 . Limit(limit) . Offset(offset) . Order("id") . Find: a
\* negative limit lifts the limit, an offset <= 0 skips nothing.
GetAll(d, limit, offset) ==
    LET sorted == SortByID(Visible(d))
        from == IF offset > 0 THEN offset + 1 ELSE 1
        to == IF limit < 0 THEN Len(sorted)
              ELSE IF from + limit - 1 < Len(sorted) THEN from + limit - 1
              ELSE Len(sorted)
        page == SubSeq(sorted, from, to)
    IN [err |-> "nil",
        policies |-> [n \in 1..Len(page) |-> convertPolicyToLadon(d, page[n])]]

(***************************************************************************)
(* Inputs                                                                  *)
(***************************************************************************)
\* Cap on the number of write calls started in one behaviour
MaxCalls == 2

S_user == <<"u","s","e","r">>
S_userPadded == <<" ","u","s","e","r"," ">>
S_admin == <<"a","d","m","i","n">>
S_administrator == <<"a","d","m","i","n","i","s","t","r","a","t","o","r">>
S_userPattern == <<"u",":","<",".","*",">">>
S_userBob == <<"u",":","b","o","b">>
S_badStar == <<"<","*",">">>
S_blank == <<" ">>
A_read == <<"r","e","a","d">>
A_angleA == <<"<","a",">">>
A_braceA == <<"{","a","}">>
R_fileUserPattern == <<"f","i","l","e",":","u","s","e","r",":","<",".","*",">">>
R_fileUserDoc == <<"f","i","l","e",":","u","s","e","r",":","d","o","c",".","t","x","t">>
R_fileUserReport == <<"f","i","l","e",":","u","s","e","r",":","r","e","p","o","r","t",".","p","d","f">>
R_fileAdminDoc == <<"f","i","l","e",":","a","d","m","i","n",":","d","o","c",".","t","x","t">>
R_otherX == <<"o","t","h","e","r",":","x">>
R_otherPattern == <<"o","t","h","e","r",":","<",".","*",">">>
ID_p1 == <<"p","1">>
ID_p2 == <<"p","2">>
R_unbalanced == <<"f",":","<","x">>
ID_long == [n \in 1..(PolicyIDMaxLength + 1) |-> "x"]
Desc == <<"d">>
EffectOther == <<"m","a","y","b","e">>


\* A ladon.Policy as the manager reads it through the interface getters
Pol(id, ds, de, subjects, actions, resources, effect) ==
    [ID |-> id, Description |-> Desc, Effect |-> effect,
     Conditions |-> NilConditions, Meta |-> NilMeta,
     Subjects |-> subjects, Actions |-> actions, Resources |-> resources,
     StartDelimiter |-> ds, EndDelimiter |-> de]

NoPolicy == [Pol(<<>>, NUL, NUL, <<>>, <<>>, <<>>, <<>>) EXCEPT !.Description = <<>>]

\* p1 of the concrete scenario
P1 == Pol(ID_p1, "<", ">", <<S_user>>, <<A_read>>, <<R_fileUserPattern>>, EffectAllow)
\* another version of p1, with a pattern subject
P1u == Pol(ID_p1, "<", ">", <<S_admin, S_userPattern>>, <<A_read>>, <<R_otherX>>, EffectDeny)
\* p1 with an action whose compiled expression is that of P2b's action
\* with two resources that both match 'other:x', and with a condition
\* under the key "owner"
P1c == [Pol(ID_p1, "<", ">", <<S_admin>>, <<A_angleA>>, <<R_otherX, R_otherPattern>>,
            EffectAllow)
           EXCEPT !.Conditions = Conditions({"owner"})]
\* padded and repeated subject, a subject that does not compile, a blank
\* action, a resource with an unclosed delimiter
P2 == Pol(ID_p2, "<", ">", <<S_userPadded, S_user, S_badStar>>, <<A_read, S_blank>>,
          <<R_fileUserPattern, R_unbalanced>>, EffectAllow)
\* brace delimiters: "u:<.*>" and "file:user:<.*>" are literals here
P2b == Pol(ID_p2, "{", "}", <<S_userPattern>>, <<A_braceA>>, <<R_fileUserPattern>>, EffectAllow)
\* rejected by validation
Pbad == Pol(ID_p1, "<", ">", <<S_user>>, <<A_read>>, <<R_otherX>>, EffectOther)

\* rejected by the checks on the id
PnoID == Pol(EmptyStr, "<", ">", <<S_user>>, <<A_read>>, <<R_otherX>>, EffectAllow)
PlongID == Pol(ID_long, "<", ">", <<S_user>>, <<A_read>>, <<R_otherX>>, EffectAllow)

PolicyPool == {P1, P1u, P1c, P2, P2b, Pbad, PnoID, PlongID}
PolicyIDs == {ID_p1, ID_p2}

Req(subject, action, resource) ==
    [Subject |-> subject, Action |-> action, Resource |-> resource]

RequestPool ==
    {Req(S_user, A_read, R_fileUserDoc),
     Req(S_user, A_read, R_fileAdminDoc),
     Req(S_administrator, A_read, R_otherX),
     Req(S_admin, A_read, R_otherX),
     Req(S_userBob, A_read, R_otherX)}

SubjectPool == {S_user, S_admin, S_administrator, S_userBob, A_read}
ResourcePool == {R_fileUserReport, R_fileUserDoc, R_fileAdminDoc, R_otherX, A_read}
LimitPool == {1, 2}
OffsetPool == {0, 1}
DelimiterPool == {<<"<", ">">>, <<"{", "}">>}

(***************************************************************************)
(* State                                                                   *)
(***************************************************************************)
VARIABLES
    db,          \* the committed tables
    calls,       \* per caller: the write call in progress or last returned
    builder,     \* the EntityBuilder held by the manager's director
    res,         \* what the last read returned
    ncalls,      \* write calls started so far
    driverName,  \* SQLManager.driverName
    origin,      \* history: the policies whose Create / Update committed
    factoryRegistry,   \* SQLManager.factoryRegistry: entity type -> factory
    strategyRegistry   \* SQLManager.strategyRegistry: relation type -> strategy

vars == <<db, calls, builder, res, ncalls, driverName, origin,
          factoryRegistry, strategyRegistry>>

Procs == {"w1", "w2"}
SeqProc == "w1"

IdleCall ==
    [op |-> "none", pol |-> NoPolicy, pc |-> "idle", log |-> <<>>, pre |-> EmptyDB,
     k |-> 1, i |-> 1, rels |-> <<>>, item |-> ZeroEntity,
     err |-> "nil", fault |-> FALSE]

NoRes == [op |-> "none", arg |-> <<>>, err |-> "nil", policies |-> {}]

InFlight(c) == c.pc \notin {"idle", "done"}
Quiescent == \A q \in Procs : ~InFlight(calls[q])

\* strings.ToLower(driverName) in NewWithConfig, for the names used here
ToLower(name) ==
    CASE name = "Postgres" -> "postgres"
      [] name = "MySQL" -> "mysql"
      [] name = "SQLite" -> "sqlite"
      [] name = "PGX" -> "pgx"
      [] OTHER -> name

InitWith(drivers) ==
    /\ db = EmptyDB
    /\ calls = [q \in Procs |-> IdleCall]
    /\ builder = NewEntityBuilder
    /\ res = NoRes
    /\ ncalls = 0
    /\ driverName \in {ToLower(n) : n \in drivers}
    /\ origin = {}
    /\ factoryRegistry = NewEntityFactoryRegistry
    /\ strategyRegistry = NewRelationStrategyRegistry

Init == InitWith({"postgres", "MySQL"})

(***************************************************************************)
(* Write path                                                              *)
(***************************************************************************)
Items(pol, kind) ==
    CASE kind = itemTypeSubject -> pol.Subjects
      [] kind = itemTypeAction -> pol.Actions
      [] kind = itemTypeResource -> pol.Resources

\* Where create() stands after finishing item i-1 (pc "items") or relation
\* i-1 (pc "rels") of kind k: processPolicyItems runs the item loop, then
\* the relation loop; processPolicyRelations runs the three kinds in order.
RECURSIVE NormPos(_, _, _, _, _)
NormPos(pol, pc, k, i, rels) ==
    IF pc = "items"
    THEN IF i <= Len(Items(pol, Kinds[k]))
         THEN [pc |-> "items", k |-> k, i |-> i, rels |-> rels]
         ELSE NormPos(pol, "rels", k, 1, rels)
    ELSE IF i <= Len(rels)
         THEN [pc |-> "rels", k |-> k, i |-> i, rels |-> rels]
         ELSE IF k = Len(Kinds)
              THEN [pc |-> "commit", k |-> 1, i |-> 1, rels |-> <<>>]
              ELSE NormPos(pol, "items", k + 1, 1, <<>>)

\* db.Transaction(...): BEGIN, for a caller that starts at most cap calls
BeginCapped(p, op, pol, cap) ==
    /\ ~InFlight(calls[p])
    /\ ncalls < cap
    /\ calls' = [calls EXCEPT ![p] =
                    [op |-> op, pol |-> pol,
                     pc |-> IF op = "Create" THEN "create" ELSE "delete",
                     log |-> <<>>, pre |-> db, k |-> 1, i |-> 1, rels |-> <<>>,
                     item |-> ZeroEntity, err |-> "nil", fault |-> FALSE]]
    /\ ncalls' = ncalls + 1
    /\ res' = NoRes
    /\ UNCHANGED <<db, builder, driverName, origin, factoryRegistry, strategyRegistry>>

Begin(p, op, pol) == BeginCapped(p, op, pol, MaxCalls)

Create(p, pol) == Begin(p, "Create", pol)
Update(p, pol) == Begin(p, "Update", pol)
Delete(p, id) == Begin(p, "Delete", [NoPolicy EXCEPT !.ID = id])

\* The transaction function returned err: ROLLBACK, the call returns err
Returned(c, err, fault) ==
    [c EXCEPT !.pc = "done", !.err = err, !.fault = fault, !.log = <<>>,
              !.k = 1, !.i = 1, !.rels = <<>>, !.item = ZeroEntity]

MoveTo(c, pos, log) ==
    [c EXCEPT !.pc = pos.pc, !.k = pos.k, !.i = pos.i, !.rels = pos.rels, !.log = log,
              !.item = ZeroEntity]

\* Variant of delete that runs the statement on s.db instead of tx
delete_OutsideTx(p) ==
    LET c == calls[p]
    IN /\ c.pc = "delete"
       /\ db' = Apply(db, WDeletePolicy(c.pol.ID))
       /\ calls' = [calls EXCEPT ![p] =
                       [c EXCEPT !.pc = IF c.op = "Update" THEN "create" ELSE "commit"]]
       /\ UNCHANGED <<builder, res, ncalls, driverName, origin, factoryRegistry, strategyRegistry>>

\* Variant of delete that reports an id without a stored policy as an error
delete_ErrIfAbsent(p) ==
    LET c == calls[p]
        v == View(db, c.log)
    IN /\ c.pc = "delete"
       /\ calls' = [calls EXCEPT ![p] =
            IF \A row \in Visible(v) : row.ID # c.pol.ID
            THEN Returned(c, "record not found", FALSE)
            ELSE [c EXCEPT !.pc = IF c.op = "Update" THEN "create" ELSE "commit",
                           !.log = Append(c.log, WDeletePolicy(c.pol.ID))]]
       /\ UNCHANGED <<db, builder, res, ncalls, driverName, origin, factoryRegistry, strategyRegistry>>

\* s.delete(id, tx)
delete(p) ==
    LET c == calls[p]
    IN /\ c.pc = "delete"
       /\ calls' = [calls EXCEPT ![p] =
                       [c EXCEPT !.pc = IF c.op = "Update" THEN "create" ELSE "commit",
                                 !.log = Append(c.log, WDeletePolicy(c.pol.ID))]]
       /\ UNCHANGED <<db, builder, res, ncalls, driverName, origin, factoryRegistry, strategyRegistry>>

\* Variant of createValidate that accepts every policy
createValidate_Skip(pol) == "nil"

\* The checks of create() before the INSERT, in source order
createValidate(pol) ==
    IF pol.ID = <<>> THEN "policy ID cannot be empty"
    ELSE IF Len(pol.ID) > PolicyIDMaxLength THEN "policy ID exceeds maximum length"
    ELSE PolicyValidate(PolicyModel(pol))

\* Variant of create whose INSERT overwrites a row with the same id
create_Upsert(p) ==
    LET c == calls[p]
        row == PolicyModel(c.pol)
        verr == createValidate(c.pol)
    IN /\ c.pc = "create"
       /\ calls' = [calls EXCEPT ![p] =
            IF verr # "nil" THEN Returned(c, verr, FALSE)
            ELSE MoveTo(c, NormPos(c.pol, "items", 1, 1, <<>>),
                        Append(c.log, WInsertPolicy(row)))]
       /\ UNCHANGED <<db, builder, res, ncalls, driverName, origin, factoryRegistry, strategyRegistry>>

\* s.create(policy, tx) up to and including tx.Create(policyModel)
create(p) ==
    LET c == calls[p]
        v == View(db, c.log)
        row == PolicyModel(c.pol)
        verr == createValidate(c.pol)
    IN /\ c.pc = "create"
       /\ calls' = [calls EXCEPT ![p] =
            IF verr # "nil" THEN Returned(c, verr, FALSE)
            ELSE IF ~PolicyInsertOK(v, row)
            THEN Returned(c, "duplicate key: ladon_policy", FALSE)
            ELSE MoveTo(c, NormPos(c.pol, "items", 1, 1, <<>>),
                        Append(c.log, WInsertPolicy(row)))]
       /\ UNCHANGED <<db, builder, res, ncalls, driverName, origin, factoryRegistry, strategyRegistry>>

\* tx.Where("id = ?", id).FirstOrCreate(item): the rows the SELECT finds
EntityFirst(d, kind, entity) == {e \in d.ent[kind] : e.ID = entity.ID}

\* One pass of the item loop of processPolicyItems
processPolicyItem(p) ==
    LET c == calls[p]
        kind == Kinds[c.k]
        template == Items(c.pol, kind)[c.i]
        r == BuildStandardEntity(builder, template,
                                 c.pol.StartDelimiter, c.pol.EndDelimiter)
        v == View(db, c.log)
        rels == Append(c.rels, CreateRelation(c.pol.ID, r.entity.ID))
    IN /\ c.pc = "items"
       /\ builder' = r.b
       /\ calls' = [calls EXCEPT ![p] =
            IF r.err # "nil"
            THEN MoveTo(c, NormPos(c.pol, "items", c.k, c.i + 1, c.rels), c.log)
            ELSE IF EntityFirst(v, kind, r.entity) # {}
            THEN MoveTo(c, NormPos(c.pol, "items", c.k, c.i + 1, rels), c.log)
            ELSE IF EntityInsertOK(v, kind, r.entity)
            THEN MoveTo(c, NormPos(c.pol, "items", c.k, c.i + 1, rels),
                        Append(c.log, WInsertEntity(kind, r.entity)))
            ELSE Returned(c, "duplicate key: entity", FALSE)]
       /\ UNCHANGED <<db, res, ncalls, driverName, origin, factoryRegistry, strategyRegistry>>

\* Variant of PersistRelation that inserts the row without looking for it
PersistRelation_Create(p) ==
    LET c == calls[p]
        kind == Kinds[c.k]
        rel == c.rels[c.i]
        v == View(db, c.log)
    IN /\ c.pc = "rels"
       /\ calls' = [calls EXCEPT ![p] =
            IF RelationInsertOK(v, kind, rel)
            THEN MoveTo(c, NormPos(c.pol, "rels", c.k, c.i + 1, c.rels),
                        Append(c.log, WInsertRelation(kind, rel)))
            ELSE Returned(c, "constraint violation: relation", FALSE)]
       /\ UNCHANGED <<db, builder, res, ncalls, driverName, origin, factoryRegistry, strategyRegistry>>

\* strategy.PersistRelation: Where(policy, entity).FirstOrCreate(rel)
PersistRelation(p) ==
    LET c == calls[p]
        kind == Kinds[c.k]
        rel == c.rels[c.i]
        v == View(db, c.log)
    IN /\ c.pc = "rels"
       /\ calls' = [calls EXCEPT ![p] =
            IF rel \in v.rel[kind]
            THEN MoveTo(c, NormPos(c.pol, "rels", c.k, c.i + 1, c.rels), c.log)
            ELSE IF RelationInsertOK(v, kind, rel)
            THEN MoveTo(c, NormPos(c.pol, "rels", c.k, c.i + 1, c.rels),
                        Append(c.log, WInsertRelation(kind, rel)))
            ELSE Returned(c, "constraint violation: relation", FALSE)]
       /\ UNCHANGED <<db, builder, res, ncalls, driverName, origin, factoryRegistry, strategyRegistry>>

\* The transaction function returned nil: COMMIT
Commit(p) ==
    LET c == calls[p]
    IN /\ c.pc = "commit"
       /\ db' = View(db, c.log)
       /\ calls' = [calls EXCEPT ![p] = Returned(c, "nil", FALSE)]
       /\ origin' = IF c.op = "Delete" THEN origin
                    ELSE {o \in origin : o.ID # c.pol.ID} \cup {c.pol}
       /\ UNCHANGED <<builder, res, ncalls, driverName, factoryRegistry, strategyRegistry>>

\* A statement (or the COMMIT) fails in the storage engine, or the call's
\* context is cancelled or times out: the driver returns the error, the
\* transaction is rolled back and the call returns the error.
FaultErrors == {"context canceled", "storage failure"}

\* Variant of Fail without the rollback: the statements already executed stay
Fail_NoRollback(p, e) ==
    /\ InFlight(calls[p])
    /\ db' = View(db, calls[p].log)
    /\ calls' = [calls EXCEPT ![p] = Returned(calls[p], e, TRUE)]
    /\ UNCHANGED <<builder, res, ncalls, driverName, origin, factoryRegistry, strategyRegistry>>

Fail(p, e) ==
    /\ InFlight(calls[p])
    /\ calls' = [calls EXCEPT ![p] = Returned(calls[p], e, TRUE)]
    /\ UNCHANGED <<db, builder, res, ncalls, driverName, origin, factoryRegistry, strategyRegistry>>

(***************************************************************************)
(* Reads                                                                   *)
(***************************************************************************)
Answer(op, arg, r) ==
    /\ res' = [op |-> op, arg |-> arg, err |-> r.err, policies |-> r.policies]
    /\ UNCHANGED <<db, calls, builder, ncalls, driverName, origin, factoryRegistry, strategyRegistry>>

DoGet(id) == Answer("Get", id, Get(db, id))
DoGetAll(limit, offset) == Answer("GetAll", <<limit, offset>>, GetAll(db, limit, offset))
\* Variant of DoFindRequestCandidates that answers from the tables as they
\* were before the last write call
DoFindRequestCandidates_Stale(r) ==
    Answer("FindRequestCandidates", r,
           FindRequestCandidates(calls[SeqProc].pre, driverName, r))
DoFindRequestCandidates(r) ==
    Answer("FindRequestCandidates", r, FindRequestCandidates(db, driverName, r))
DoFindPoliciesForSubject(subject) ==
    Answer("FindPoliciesForSubject", subject, FindPoliciesForSubject(db, driverName, subject))
DoFindPoliciesForResource(resource) ==
    Answer("FindPoliciesForResource", resource, FindPoliciesForResource(db, driverName, resource))

(***************************************************************************)
(* One caller at a time: a call starts only when none is in progress       *)
(***************************************************************************)
Next ==
    \/ Quiescent /\ \E pol \in PolicyPool : Create(SeqProc, pol)
    \/ Quiescent /\ \E pol \in PolicyPool : Update(SeqProc, pol)
    \/ Quiescent /\ \E id \in PolicyIDs : Delete(SeqProc, id)
    \/ delete(SeqProc)
    \/ create(SeqProc)
    \/ processPolicyItem(SeqProc)
    \/ PersistRelation(SeqProc)
    \/ Commit(SeqProc)
    \/ \E e \in FaultErrors : Fail(SeqProc, e)
    \/ Quiescent /\ \E id \in PolicyIDs : DoGet(id)
    \/ Quiescent /\ \E l \in LimitPool, o \in OffsetPool : DoGetAll(l, o)
    \/ Quiescent /\ \E r \in RequestPool : DoFindRequestCandidates(r)
    \/ Quiescent /\ \E s \in SubjectPool : DoFindPoliciesForSubject(s)
    \/ Quiescent /\ \E r \in ResourcePool : DoFindPoliciesForResource(r)

Spec == Init /\ [][Next]_vars

\* The same callers on managers built with the driver names 'SQLite' and 'PGX'
DriverInit == InitWith({"SQLite", "PGX"})
DriverSpec == DriverInit /\ [][Next]_vars

(***************************************************************************)
(* Concurrent callers.  Each call runs in its own goroutine and its own    *)
(* transaction; all calls share the manager and with it the one            *)
(* EntityBuilder of s.builderDirector, which no lock protects.  The chain  *)
(* of BuildStandardEntity is therefore interleaved method by method, and   *)
(* FirstOrCreate is the SELECT followed, when no row was found, by the     *)
(* INSERT.  A transaction sees the committed tables and its own writes; an *)
(* INSERT that collides with an uncommitted row of another transaction     *)
(* waits until that transaction has committed or rolled back.              *)
(***************************************************************************)
ChainSteps == <<"WithTemplate", "WithDelimiters", "GenerateID", "CompileTemplate">>

\* d.builder.Reset(), entered from the head of the item loop
BuildStandardEntity_Reset(p) ==
    LET c == calls[p]
    IN /\ c.pc = "items"
       /\ builder' = Reset(builder)
       /\ calls' = [calls EXCEPT ![p] = [c EXCEPT !.pc = ChainSteps[1]]]
       /\ UNCHANGED <<db, res, ncalls, driverName, origin, factoryRegistry, strategyRegistry>>

\* The next method of the chain, run on the shared builder as it is now
BuildStandardEntity_Step(p) ==
    LET c == calls[p]
        template == Items(c.pol, Kinds[c.k])[c.i]
    IN /\ \E n \in 1..Len(ChainSteps) :
            /\ c.pc = ChainSteps[n]
            /\ builder' =
                 CASE n = 1 -> WithTemplate(builder, template)
                   [] n = 2 -> WithDelimiters(builder, c.pol.StartDelimiter,
                                              c.pol.EndDelimiter)
                   [] n = 3 -> GenerateID(builder)
                   [] n = 4 -> CompileTemplate(builder)
            /\ calls' = [calls EXCEPT ![p] =
                 [c EXCEPT !.pc = IF n = Len(ChainSteps) THEN "Build"
                                  ELSE ChainSteps[n + 1]]]
       /\ UNCHANGED <<db, res, ncalls, driverName, origin, factoryRegistry, strategyRegistry>>

\* Build(): the entity is copied out of the builder, or the template is
\* skipped ("continue")
BuildStandardEntity_Build(p) ==
    LET c == calls[p]
        r == Build(builder)
    IN /\ c.pc = "Build"
       /\ calls' = [calls EXCEPT ![p] =
            IF r.err # "nil"
            THEN MoveTo(c, NormPos(c.pol, "items", c.k, c.i + 1, c.rels), c.log)
            ELSE [c EXCEPT !.pc = "first", !.item = r.entity]]
       /\ UNCHANGED <<db, builder, res, ncalls, driverName, origin, factoryRegistry, strategyRegistry>>

\* FirstOrCreate, first half: SELECT ... WHERE id = ? LIMIT 1
FirstOrCreate_First(p) ==
    LET c == calls[p]
        kind == Kinds[c.k]
        v == View(db, c.log)
        rels == Append(c.rels, CreateRelation(c.pol.ID, c.item.ID))
    IN /\ c.pc = "first"
       /\ calls' = [calls EXCEPT ![p] =
            IF EntityFirst(v, kind, c.item) # {}
            THEN MoveTo(c, NormPos(c.pol, "items", c.k, c.i + 1, rels), c.log)
            ELSE [c EXCEPT !.pc = "insert"]]
       /\ UNCHANGED <<db, builder, res, ncalls, driverName, origin, factoryRegistry, strategyRegistry>>

\* The uncommitted entity rows of the other transactions that an INSERT of
\* row into the table of kind has to wait for
EntityLockWait(p, kind, row) ==
    \E q \in Procs \ {p} : \E n \in 1..Len(calls[q].log) :
        LET w == calls[q].log[n]
        IN /\ w.t = "insertEntity"
           /\ w.kind = kind
           /\ (w.row.ID = row.ID \/ w.row.Compiled = row.Compiled
                 \/ w.row.Template = row.Template)

\* FirstOrCreate, second half: INSERT of the row the SELECT did not find
FirstOrCreate_Create(p) ==
    LET c == calls[p]
        kind == Kinds[c.k]
        v == View(db, c.log)
        rels == Append(c.rels, CreateRelation(c.pol.ID, c.item.ID))
    IN /\ c.pc = "insert"
       /\ ~EntityLockWait(p, kind, c.item)
       /\ calls' = [calls EXCEPT ![p] =
            IF EntityInsertOK(v, kind, c.item)
            THEN MoveTo(c, NormPos(c.pol, "items", c.k, c.i + 1, rels),
                        Append(c.log, WInsertEntity(kind, c.item)))
            ELSE Returned(c, "duplicate key: entity", FALSE)]
       /\ UNCHANGED <<db, builder, res, ncalls, driverName, origin, factoryRegistry, strategyRegistry>>

\* Two policies with distinct ids and the same subject, action and resource
K1 == Pol(ID_p1, "<", ">", <<S_user>>, <<A_read>>, <<R_otherX>>, EffectAllow)
K2 == Pol(ID_p2, "<", ">", <<S_user>>, <<A_read>>, <<R_otherX>>, EffectAllow)
ConcPool == [w1 |-> {K1}, w2 |-> {K2}]

ConcNext ==
    \E p \in Procs :
        \/ \E pol \in ConcPool[p] : Create(p, pol)
        \/ create(p)
        \/ BuildStandardEntity_Reset(p)
        \/ BuildStandardEntity_Step(p)
        \/ BuildStandardEntity_Build(p)
        \/ FirstOrCreate_First(p)
        \/ FirstOrCreate_Create(p)
        \/ PersistRelation(p)
        \/ Commit(p)

ConcSpec == Init /\ [][ConcNext]_vars

(***************************************************************************)
(* A reader next to a writer.  Get, GetAll and FindRequestCandidates run   *)
(* on s.db outside any transaction: the main SELECT (First / Find), then   *)
(* one Preload per association, each a statement of its own that sees the  *)
(* tables as committed when it runs.  The writer's transaction may commit  *)
(* between any two of them.                                                *)
(***************************************************************************)
Reader == "w2"
ReadOps == {"Get", "GetAll", "FindRequestCandidates"}
Reading(c) == c.op \in ReadOps /\ c.pc = "Preload"
NothingLoaded == [k \in KindSet |-> {}]

\* The policy rows of the page that GetAll selects
GetAllRows(d, limit, offset) ==
    LET sorted == SortByID(Visible(d))
        from == IF offset > 0 THEN offset + 1 ELSE 1
        to == IF limit < 0 THEN Len(sorted)
              ELSE IF from + limit - 1 < Len(sorted) THEN from + limit - 1
              ELSE Len(sorted)
    IN SubSeq(sorted, from, to)

\* The rows the main SELECT of a read returns, in the order of the result
MainQuery(d, driver, op, arg) ==
    CASE op = "Get" -> SortByID({r \in Visible(d) : r.ID = arg})
      [] op = "GetAll" -> GetAllRows(d, arg[1], arg[2])
      [] op = "FindRequestCandidates" ->
           SortByID({x[1] : x \in Distinct(JoinRows(d, driver, itemTypeSubject,
                                                     arg.Subject))})

\* Preload of one association for the rows found: relation rows by policy
\* id, then the entities by id
PreloadRows(d, rows, kind) ==
    {x \in {<<rows[n].ID, e>> : n \in 1..Len(rows), e \in d.ent[kind]} :
        CreateRelation(x[1], x[2].ID) \in d.rel[kind]}

\* convertPolicyToLadon on a row with its preloaded associations
convertPreloaded(row, loaded) ==
    [ID |-> row.ID,
     Description |-> row.Description,
     Effect |-> row.Effect,
     Conditions |-> UnmarshalConditions(row.Conditions),
     Meta |-> row.Meta,
     Subjects |-> {x[2].Template : x \in {y \in loaded[itemTypeSubject] : y[1] = row.ID}},
     Actions |-> {x[2].Template : x \in {y \in loaded[itemTypeAction] : y[1] = row.ID}},
     Resources |-> {x[2].Template : x \in {y \in loaded[itemTypeResource] : y[1] = row.ID}}]

\* What the read returns once its statements have run
ReadResult(op, arg, rows, loaded) ==
    [op |-> op, arg |-> arg,
     err |-> IF op = "Get" /\ rows = <<>> THEN ErrResourceNotFound ELSE "nil",
     policies |-> IF op = "GetAll"
                  THEN [n \in 1..Len(rows) |-> convertPreloaded(rows[n], loaded)]
                  ELSE {convertPreloaded(rows[n], loaded) : n \in 1..Len(rows)}]

\* The main SELECT of a read; with no row found there is nothing to preload
\* and the read returns
ReadMain(q, op, arg) ==
    LET rows == MainQuery(db, driverName, op, arg)
    IN /\ ~InFlight(calls[q])
       /\ calls' = [calls EXCEPT ![q] =
            [IdleCall EXCEPT !.op = op, !.pol = [NoPolicy EXCEPT !.ID = arg],
                             !.pre = db, !.rels = rows, !.item = NothingLoaded,
                             !.pc = IF rows = <<>> THEN "done" ELSE "Preload"]]
       /\ res' = IF rows = <<>> THEN ReadResult(op, arg, rows, NothingLoaded) ELSE NoRes
       /\ UNCHANGED <<db, builder, ncalls, driverName, origin, factoryRegistry, strategyRegistry>>

\* Variant of ReadPreload that leaves out the relation rows of the policies
\* deleted by the time the Preload runs
ReadPreload_Scoped(q) ==
    LET c == calls[q]
        kind == Kinds[c.k]
        loaded == [c.item EXCEPT ![kind] =
                      {x \in PreloadRows(db, c.rels, kind) :
                          \E r \in Visible(db) : r.ID = x[1]}]
    IN /\ Reading(c)
       /\ calls' = [calls EXCEPT ![q] =
            IF c.k < Len(Kinds)
            THEN [c EXCEPT !.k = c.k + 1, !.item = loaded]
            ELSE [c EXCEPT !.pc = "done", !.k = 1, !.item = loaded]]
       /\ res' = IF c.k < Len(Kinds) THEN res
                 ELSE ReadResult(c.op, c.pol.ID, c.rels, loaded)
       /\ UNCHANGED <<db, builder, ncalls, driverName, origin, factoryRegistry, strategyRegistry>>

\* The next Preload of a read; after the last one the rows are converted
\* and returned
ReadPreload(q) ==
    LET c == calls[q]
        kind == Kinds[c.k]
        loaded == [c.item EXCEPT ![kind] = PreloadRows(db, c.rels, kind)]
    IN /\ Reading(c)
       /\ calls' = [calls EXCEPT ![q] =
            IF c.k < Len(Kinds)
            THEN [c EXCEPT !.k = c.k + 1, !.item = loaded]
            ELSE [c EXCEPT !.pc = "done", !.k = 1, !.item = loaded]]
       /\ res' = IF c.k < Len(Kinds) THEN res
                 ELSE ReadResult(c.op, c.pol.ID, c.rels, loaded)
       /\ UNCHANGED <<db, builder, ncalls, driverName, origin, factoryRegistry, strategyRegistry>>

ReadPolicyPool == {P1, P1u, P2b}
ReadRequest == Req(S_user, A_read, R_fileAdminDoc)

ReadNext ==
    \/ \E pol \in ReadPolicyPool : Create(SeqProc, pol)
    \/ \E pol \in ReadPolicyPool : Update(SeqProc, pol)
    \/ \E id \in PolicyIDs : Delete(SeqProc, id)
    \/ delete(SeqProc)
    \/ create(SeqProc)
    \/ processPolicyItem(SeqProc)
    \/ PersistRelation(SeqProc)
    \/ Commit(SeqProc)
    \/ \E id \in PolicyIDs : ReadMain(Reader, "Get", id)
    \/ \E l \in LimitPool, o \in OffsetPool : ReadMain(Reader, "GetAll", <<l, o>>)
    \/ ReadMain(Reader, "FindRequestCandidates", ReadRequest)
    \/ ReadPreload(Reader)

ReadSpec == Init /\ [][ReadNext]_vars

(***************************************************************************)
(* A store of up to four policies read page by page                        *)
(***************************************************************************)
MaxPageCalls == 5
ID_p == <<"p">>
ID_p10 == <<"p", "1", "0">>
PageIDs == {ID_p, ID_p1, ID_p10, ID_p2}
PagePolicy(id) == Pol(id, "<", ">", <<S_user>>, <<A_read>>, <<R_otherX>>, EffectAllow)
PageLimits == {1, 2, 3}
PageOffsets == 0..4

PageNext ==
    \/ Quiescent /\ \E id \in PageIDs :
          BeginCapped(SeqProc, "Create", PagePolicy(id), MaxPageCalls)
    \/ Quiescent /\ \E id \in PageIDs :
          BeginCapped(SeqProc, "Delete", [NoPolicy EXCEPT !.ID = id], MaxPageCalls)
    \/ delete(SeqProc)
    \/ create(SeqProc)
    \/ processPolicyItem(SeqProc)
    \/ PersistRelation(SeqProc)
    \/ Commit(SeqProc)
    \/ Quiescent /\ \E l \in PageLimits, o \in PageOffsets : DoGetAll(l, o)

PageSpec == Init /\ [][PageNext]_vars

(***************************************************************************)
(* The entity builder on its own: a caller holding one EntityBuilder (the  *)
(* director's) calls its methods in any order.                             *)
(***************************************************************************)
CustomID(s) == [hash |-> FALSE, s |-> s]
ID_custom == CustomID(<<"c", "1">>)
ID_custom64 == CustomID([n \in 1..EntityIDMaxLength |-> "x"])
ID_custom65 == CustomID([n \in 1..(EntityIDMaxLength + 1) |-> "x"])
CustomIDPool == {CustomID(EmptyStr), ID_custom, ID_custom64, ID_custom65}
BuilderTemplates == {S_userPadded, S_admin, S_userPattern, S_badStar, S_blank, EmptyStr}

\* What a builder method returns to the caller: the builder itself
Chained(op, b) ==
    /\ builder' = b
    /\ res' = [op |-> op, arg |-> <<>>, err |-> b.err, policies |-> {}]
    /\ UNCHANGED <<db, calls, ncalls, driverName, origin, factoryRegistry, strategyRegistry>>

\* What Build and the director's methods return: the entity and the error
Built(op, b, r) ==
    /\ builder' = b
    /\ res' = [op |-> op, arg |-> <<>>, err |-> r.err, policies |-> {r.entity}]
    /\ UNCHANGED <<db, calls, ncalls, driverName, origin, factoryRegistry, strategyRegistry>>

DoWithTemplate(t) == Chained("WithTemplate", WithTemplate(builder, t))
DoWithDelimiters(ds, de) == Chained("WithDelimiters", WithDelimiters(builder, ds, de))
DoGenerateID == Chained("GenerateID", GenerateID(builder))
DoCompileTemplate == Chained("CompileTemplate", CompileTemplate(builder))
DoWithCustomID(id) == Chained("WithCustomID", WithCustomID(builder, id))
DoReset == Chained("Reset", Reset(builder))
DoBuild == Built("Build", builder, Build(builder))
DoBuildStandardEntity(t, ds, de) ==
    LET r == BuildStandardEntity(builder, t, ds, de)
    IN Built("BuildStandardEntity", r.b, r)
DoBuildEntityWithCustomID(t, id, ds, de) ==
    LET r == BuildEntityWithCustomID(builder, t, id, ds, de)
    IN Built("BuildEntityWithCustomID", r.b, r)

BuilderNext ==
    \/ \E t \in BuilderTemplates : DoWithTemplate(t)
    \/ \E dl \in DelimiterPool : DoWithDelimiters(dl[1], dl[2])
    \/ DoGenerateID
    \/ DoCompileTemplate
    \/ \E id \in CustomIDPool : DoWithCustomID(id)
    \/ DoReset
    \/ DoBuild
    \/ \E t \in BuilderTemplates : \E dl \in DelimiterPool :
          DoBuildStandardEntity(t, dl[1], dl[2])
    \/ \E t \in BuilderTemplates : \E id \in CustomIDPool : \E dl \in DelimiterPool :
          DoBuildEntityWithCustomID(t, id, dl[1], dl[2])

BuilderSpec == Init /\ [][BuilderNext]_vars

(***************************************************************************)
(* One policy id created, deleted and created again                        *)
(***************************************************************************)
MaxReuseCalls == 3
ReusePool == {P1, P1u}

ReuseNext ==
    \/ Quiescent /\ \E pol \in ReusePool :
          BeginCapped(SeqProc, "Create", pol, MaxReuseCalls)
    \/ Quiescent /\ BeginCapped(SeqProc, "Delete", [NoPolicy EXCEPT !.ID = ID_p1],
                                MaxReuseCalls)
    \/ delete(SeqProc)
    \/ create(SeqProc)
    \/ processPolicyItem(SeqProc)
    \/ PersistRelation(SeqProc)
    \/ Commit(SeqProc)
    \/ Quiescent /\ DoGet(ID_p1)

ReuseSpec == Init /\ [][ReuseNext]_vars

(***************************************************************************)
(* Deletes of stored, deleted and never stored ids next to another policy  *)
(***************************************************************************)
MaxDeleteCalls == 4
DeletePool == {P1, P2b}

DeleteNext ==
    \/ Quiescent /\ \E pol \in DeletePool :
          BeginCapped(SeqProc, "Create", pol, MaxDeleteCalls)
    \/ Quiescent /\ \E id \in PolicyIDs :
          BeginCapped(SeqProc, "Delete", [NoPolicy EXCEPT !.ID = id], MaxDeleteCalls)
    \/ delete(SeqProc)
    \/ create(SeqProc)
    \/ processPolicyItem(SeqProc)
    \/ PersistRelation(SeqProc)
    \/ Commit(SeqProc)
    \/ \E e \in FaultErrors : Fail(SeqProc, e)
    \/ Quiescent /\ \E id \in PolicyIDs : DoGet(id)

DeleteSpec == Init /\ [][DeleteNext]_vars

(***************************************************************************)
(* The registries of one manager: factories and strategies are registered  *)
(* and looked up next to Creates, and createPolicyRelation dispatches a    *)
(* relation through the factory registry, the type detector and the        *)
(* strategy it returns.                                                    *)
(***************************************************************************)
MaxRegistryCalls == 2
TypePool == KindSet \cup {"custom"}
\* the subject factory of the new registry, a second subject factory and a
\* second action factory; the same for the strategies
FactoryPool ==
    {Factory(itemTypeSubject, 0), Factory(itemTypeSubject, 1), Factory(itemTypeAction, 1)}
StrategyPool ==
    {Strategy(itemTypeSubject, 0), Strategy(itemTypeSubject, 1), Strategy(itemTypeAction, 1)}
RegistryPolicies == {P1, P2b}

\* What a registry method returns to the caller
Registered(op, arg, value) ==
    /\ res' = [op |-> op, arg |-> arg, err |-> "nil", policies |-> {value}]
    /\ UNCHANGED <<db, calls, builder, driverName, origin>>

DoRegisterFactory(t, f) ==
    /\ ncalls < MaxRegistryCalls
    /\ ncalls' = ncalls + 1
    /\ factoryRegistry' = RegisterFactory(factoryRegistry, t, f)
    /\ Registered("RegisterFactory", <<t, f>>, f)
    /\ UNCHANGED strategyRegistry

DoRegisterStrategy(t, s) ==
    /\ ncalls < MaxRegistryCalls
    /\ ncalls' = ncalls + 1
    /\ strategyRegistry' = RegisterStrategy(strategyRegistry, t, s)
    /\ Registered("RegisterStrategy", <<t, s>>, s)
    /\ UNCHANGED factoryRegistry

DoGetFactory(t) ==
    /\ Registered("GetFactory", t, GetFactory(factoryRegistry, t))
    /\ UNCHANGED <<ncalls, factoryRegistry, strategyRegistry>>

DoGetStrategy(t) ==
    /\ Registered("GetStrategy", t, GetStrategy(strategyRegistry, t))
    /\ UNCHANGED <<ncalls, factoryRegistry, strategyRegistry>>

DoFactorySupportedTypes ==
    /\ \E types \in FactorySupportedTypes(factoryRegistry) :
          Registered("FactorySupportedTypes", <<>>, types)
    /\ UNCHANGED <<ncalls, factoryRegistry, strategyRegistry>>

DoStrategySupportedTypes ==
    /\ \E types \in StrategySupportedTypes(strategyRegistry) :
          Registered("StrategySupportedTypes", <<>>, types)
    /\ UNCHANGED <<ncalls, factoryRegistry, strategyRegistry>>

\* s.createPolicyRelationOptimized(relation, tx) on the tables d
createPolicyRelationOptimized(relation, d) ==
    LET dt == DetectAndGetStrategy(strategyRegistry, relation)
    IN IF dt.err # "nil" THEN [db |-> d, err |-> dt.err]
       ELSE StrategyPersistRelation(dt.strategy, relation, d)

\* s.createPolicyRelation(policyID, itemID, itemType, tx)
createPolicyRelation(policyID, itemID, itemType) ==
    LET g == GetFactory(factoryRegistry, itemType)
        relation == FactoryCreateRelation(g.factory, policyID, itemID)
        r == IF ~g.exists THEN [db |-> db, err |-> "unsupported entity type"]
             ELSE createPolicyRelationOptimized(relation, db)
    IN /\ db' = r.db
       /\ res' = [op |-> "createPolicyRelation",
                  arg |-> <<policyID, itemID, itemType>>,
                  err |-> r.err, policies |-> {}]
       /\ UNCHANGED <<calls, builder, ncalls, driverName, origin,
                      factoryRegistry, strategyRegistry>>

\* The ids of the stored entity rows
EntityIDs(d) == UNION {{e.ID : e \in d.ent[k]} : k \in KindSet}

RegistryNext ==
    \/ Quiescent /\ \E pol \in RegistryPolicies :
          BeginCapped(SeqProc, "Create", pol, MaxRegistryCalls)
    \/ create(SeqProc)
    \/ processPolicyItem(SeqProc)
    \/ PersistRelation(SeqProc)
    \/ Commit(SeqProc)
    \/ Quiescent /\ \E t \in TypePool : \E f \in FactoryPool : DoRegisterFactory(t, f)
    \/ Quiescent /\ \E t \in TypePool : \E s \in StrategyPool : DoRegisterStrategy(t, s)
    \/ Quiescent /\ \E t \in TypePool : DoGetFactory(t)
    \/ Quiescent /\ \E t \in TypePool : DoGetStrategy(t)
    \/ Quiescent /\ DoFactorySupportedTypes
    \/ Quiescent /\ DoStrategySupportedTypes
    \/ Quiescent /\ \E id \in PolicyIDs : \E e \in EntityIDs(db) : \E t \in TypePool :
          createPolicyRelation(id, e, t)

RegistrySpec == Init /\ [][RegistryNext]_vars

(***************************************************************************)
(* Properties                                                              *)
(***************************************************************************)
ReturnedOK(c, ops) == c.pc = "done" /\ c.op \in ops /\ c.err = "nil"
ReturnedErr(c, ops) == c.pc = "done" /\ c.op \in ops /\ c.err # "nil"

\* C1: Create is atomic.  While a Create is in progress and after it has
\* returned an error (failed validation, policy insert, entity upsert or
\* relation insert, cancelled or timed-out context), the committed tables
\* are exactly the tables before the call: no policy, entity or relation
\* row of that call is stored.
C1_CreateAtomic ==
    \A p \in Procs :
        (calls[p].op = "Create" /\ (InFlight(calls[p]) \/ ReturnedErr(calls[p], {"Create"})))
            => db = calls[p].pre

\* A Create failed on an entity insert, after its policy row had been
\* written inside the transaction, and another Create was cancelled.
C1_Witness ==
    \E p \in Procs :
        /\ ReturnedErr(calls[p], {"Create"})
        /\ calls[p].err = "duplicate key: entity"
        /\ db = calls[p].pre
        /\ db.policy # {}

\* C7: Update is all-or-nothing.  A step of an Update changes the committed
\* tables only when the Update returns nil, and then the new version is the
\* stored one; when the Update returns an error the tables are those before
\* the call, so the old version is still stored.
C7_UpdateAllOrNothing ==
    [][\A p \in Procs :
          (calls[p].op = "Update" /\ InFlight(calls[p])) =>
              /\ (calls'[p].pc = "done" /\ calls'[p].err # "nil") => db' = calls[p].pre
              /\ db' # db =>
                    /\ calls'[p].pc = "done" /\ calls'[p].err = "nil"
                    /\ \E r \in Visible(db') :
                          /\ r.ID = calls[p].pol.ID
                          /\ r.Effect = calls[p].pol.Effect]_vars

\* An Update of a stored policy returned an error and the old version is
\* still readable.
C7_Witness ==
    \E p \in Procs :
        /\ ReturnedErr(calls[p], {"Update"})
        /\ ~calls[p].fault
        /\ Get(db, calls[p].pol.ID).err = "nil"
        /\ calls[p].pol \notin origin
        /\ db = calls[p].pre

(***************************************************************************)
(* Reference notions used by the properties below                          *)
(***************************************************************************)
Range(seq) == {seq[n] : n \in 1..Len(seq)}
IDsOf(policies) == {x.ID : x \in policies}

\* The whole of s matches the expression
WholeMatch(re, s) == MatchHere(<<"^">> \o re \o <<"$">>, 1, s, 1)

\* The matching rule for a stored entity row
StoredMatch(e, value) ==
    IF e.HasRegex THEN WholeMatch(e.Compiled, value) ELSE e.Template = value

\* Policy id has a related entity of this kind that matches value
HasMatch(d, id, kind, value) ==
    \E e \in d.ent[kind] :
        CreateRelation(id, e.ID) \in d.rel[kind] /\ StoredMatch(e, value)

\* A template of a policy matches value when read with the policy's own
\* delimiters
TemplateMatches(t, ds, de, value) ==
    LET st == sanitizeTemplate(t)
        c == CompileRegex(st, ds, de)
    IN st # <<>> /\ ~c.err /\ WholeMatch(c.re, value)

PolicyMatches(pol, r) ==
    /\ \E t \in Range(pol.Subjects) :
          TemplateMatches(t, pol.StartDelimiter, pol.EndDelimiter, r.Subject)
    /\ \E t \in Range(pol.Actions) :
          TemplateMatches(t, pol.StartDelimiter, pol.EndDelimiter, r.Action)
    /\ \E t \in Range(pol.Resources) :
          TemplateMatches(t, pol.StartDelimiter, pol.EndDelimiter, r.Resource)

\* The templates of a policy that the write path stores: trimmed, not
\* empty, compiling under the policy's delimiters, within the length bounds
Storable(t, ds, de) ==
    LET st == sanitizeTemplate(t)
        c == CompileRegex(st, ds, de)
    IN /\ st # <<>>
       /\ ~c.err
       /\ Len(st) <= TemplateMaxLength
       /\ Len(c.re) <= CompiledMaxLength

ExpectedTemplates(pol, kind) ==
    {sanitizeTemplate(t) : t \in {u \in Range(Items(pol, kind)) :
                                     Storable(u, pol.StartDelimiter, pol.EndDelimiter)}}

StoredVisible(id) == \E row \in Visible(db) : row.ID = id

\* C2: no false negatives.  For every request, every stored, not deleted
\* policy with a subject, an action and a resource that match the request
\* under the policy's own delimiters is among the candidates returned by
\* FindRequestCandidates.
C2_NoFalseNegatives ==
    \A r \in RequestPool : \A o \in origin :
        (StoredVisible(o.ID) /\ PolicyMatches(o, r))
            => o.ID \in IDsOf(FindRequestCandidates(db, driverName, r).policies)

\* C3 as stated: FindRequestCandidates returns a policy only if a subject, an
\* action and a resource of it match the request; with p1 of the scenario
\* stored, {user, read, file:admin:doc.txt} has no candidate.
C3_FiltersAllThreeFields ==
    /\ \A r \in RequestPool :
          \A x \in FindRequestCandidates(db, driverName, r).policies :
              /\ HasMatch(db, x.ID, itemTypeSubject, r.Subject)
              /\ HasMatch(db, x.ID, itemTypeAction, r.Action)
              /\ HasMatch(db, x.ID, itemTypeResource, r.Resource)
    /\ (P1 \in origin /\ StoredVisible(ID_p1)) =>
          FindRequestCandidates(db, driverName,
                                Req(S_user, A_read, R_fileAdminDoc)).policies = {}

\* C3 amended: FindRequestCandidates filters on the request subject only.
\* Every returned policy has a stored subject that matches the request
\* subject; action and resource are not consulted, so with p1 of the
\* scenario stored, {user, read, file:admin:doc.txt} returns p1.
C3_FiltersSubjectOnly ==
    /\ \A r \in RequestPool :
          \A x \in FindRequestCandidates(db, driverName, r).policies :
              HasMatch(db, x.ID, itemTypeSubject, r.Subject)
    /\ (P1 \in origin /\ StoredVisible(ID_p1)) =>
          ID_p1 \in IDsOf(FindRequestCandidates(db, driverName,
                                Req(S_user, A_read, R_fileAdminDoc)).policies)
    /\ (res.op = "FindRequestCandidates" /\ res.err = "nil") =>
          IDsOf(res.policies) =
              {row.ID : row \in {v \in Visible(db) :
                                   HasMatch(db, v.ID, itemTypeSubject, res.arg.Subject)}}

\* FindRequestCandidates answered {user, read, file:admin:doc.txt} with p1
C3_Witness ==
    /\ res.op = "FindRequestCandidates"
    /\ res.arg = Req(S_user, A_read, R_fileAdminDoc)
    /\ P1 \in origin
    /\ ID_p1 \in IDsOf(res.policies)
    /\ ~HasMatch(db, ID_p1, itemTypeResource, R_fileAdminDoc)

\* C4: the per-entity matching rule of FindRequestCandidates,
\* FindPoliciesForSubject and FindPoliciesForResource.  A row with
\* has_regex = false matches a value exactly when its template equals the
\* value ('admin' does not match 'administrator'); a row with
\* has_regex = true matches exactly when the whole value matches its
\* compiled expression ('file:user:<.*>' matches 'file:user:report.pdf' and
\* not 'other:x'); the queries return the policies that have such a row.
C4_MatchingRule ==
    /\ \A e \in db.ent[itemTypeSubject] : \A v \in SubjectPool :
          EntityMatches(driverName, e, v) <=> StoredMatch(e, v)
    /\ \A e \in db.ent[itemTypeResource] : \A v \in ResourcePool :
          EntityMatches(driverName, e, v) <=> StoredMatch(e, v)
    /\ \A e \in db.ent[itemTypeSubject] :
          (e.Template = S_admin /\ ~e.HasRegex) =>
              /\ EntityMatches(driverName, e, S_admin)
              /\ ~EntityMatches(driverName, e, S_administrator)
    /\ \A e \in db.ent[itemTypeResource] :
          (e.Template = R_fileUserPattern /\ e.HasRegex) =>
              /\ EntityMatches(driverName, e, R_fileUserReport)
              /\ ~EntityMatches(driverName, e, R_otherX)
    /\ \A v \in SubjectPool :
          IDsOf(FindPoliciesForSubject(db, driverName, v).policies) =
              {row.ID : row \in {x \in Visible(db) :
                                   HasMatch(db, x.ID, itemTypeSubject, v)}}
    /\ \A v \in ResourcePool :
          IDsOf(FindPoliciesForResource(db, driverName, v).policies) =
              {row.ID : row \in {x \in Visible(db) :
                                   HasMatch(db, x.ID, itemTypeResource, v)}}

\* A literal 'admin' subject and a 'file:user:<.*>' pattern resource are
\* stored, and FindPoliciesForResource found a policy for
\* 'file:user:report.pdf'.
C4_Witness ==
    /\ \E e \in db.ent[itemTypeSubject] : e.Template = S_admin /\ ~e.HasRegex
    /\ \E e \in db.ent[itemTypeResource] : e.Template = R_fileUserPattern /\ e.HasRegex
    /\ res.op = "FindPoliciesForResource"
    /\ res.arg = R_fileUserReport
    /\ res.policies # {}

\* C5 as stated: after a successful Create, Get returns the subject, action
\* and resource strings of the input policy as sets, with the input's id,
\* description and effect.
C5_RoundTripInputStrings ==
    \A p \in Procs :
        ReturnedOK(calls[p], {"Create"}) =>
            LET pol == calls[p].pol
                g == Get(db, pol.ID)
            IN /\ g.err = "nil"
               /\ \A x \in g.policies :
                     /\ x.ID = pol.ID
                     /\ x.Description = pol.Description
                     /\ x.Effect = pol.Effect
                     /\ x.Subjects = Range(pol.Subjects)
                     /\ x.Actions = Range(pol.Actions)
                     /\ x.Resources = Range(pol.Resources)

\* C5 amended: after a successful Create, Get returns the input's id,
\* description and effect, and as subject / action / resource sets the
\* trimmed input strings that are not empty and compile under the policy's
\* delimiters (the others are skipped by the write path).
C5_RoundTrip ==
    /\ \A p \in Procs :
          ReturnedOK(calls[p], {"Create"}) =>
              LET pol == calls[p].pol
                  g == Get(db, pol.ID)
              IN /\ g.err = "nil"
                 /\ g.policies # {}
                 /\ \A x \in g.policies :
                       /\ x.ID = pol.ID
                       /\ x.Description = pol.Description
                       /\ x.Effect = pol.Effect
                       /\ x.Subjects = ExpectedTemplates(pol, itemTypeSubject)
                       /\ x.Actions = ExpectedTemplates(pol, itemTypeAction)
                       /\ x.Resources = ExpectedTemplates(pol, itemTypeResource)
    /\ \A p \in Procs :
          (ReturnedOK(calls[p], {"Create"}) /\ res.op = "Get"
              /\ res.arg = calls[p].pol.ID) =>
                 res = [op |-> "Get", arg |-> res.arg,
                        err |-> "nil", policies |-> Get(db, res.arg).policies]

\* Get answered for a policy just created from padded and non-compiling
\* strings
C5_Witness ==
    \E p \in Procs :
        /\ ReturnedOK(calls[p], {"Create"})
        /\ res.op = "Get"
        /\ res.arg = calls[p].pol.ID
        /\ res.err = "nil"
        /\ Range(calls[p].pol.Subjects)
              # ExpectedTemplates(calls[p].pol, itemTypeSubject)

\* C6: Update replaces a stored policy wholesale.  For a stored policy and a
\* valid new version with the same id, Update returns nil and Get then
\* returns exactly the new version's subjects, actions and resources; no
\* relation row of the old version remains.
C6_UpdateReplaces ==
    \A p \in Procs :
        LET c == calls[p]
            old == Get(c.pre, c.pol.ID)
        IN (c.pc = "done" /\ c.op = "Update" /\ ~c.fault
               /\ createValidate(c.pol) = "nil" /\ old.err = "nil") =>
              /\ c.err = "nil"
              /\ \A x \in Get(db, c.pol.ID).policies :
                    /\ x.Subjects = ExpectedTemplates(c.pol, itemTypeSubject)
                    /\ x.Actions = ExpectedTemplates(c.pol, itemTypeAction)
                    /\ x.Resources = ExpectedTemplates(c.pol, itemTypeResource)
              /\ Get(db, c.pol.ID).err = "nil"

\* C8: after Delete(id) has succeeded, Get(id) returns the not-found error
\* and no policy, and a deleted policy is absent from GetAll and from every
\* candidate query.
Absent(id) ==
    /\ Get(db, id) = [err |-> ErrResourceNotFound, policies |-> {}]
    /\ \A l \in LimitPool \cup {-1}, o \in OffsetPool :
          \A x \in Range(GetAll(db, l, o).policies) : x.ID # id
    /\ \A r \in RequestPool :
          id \notin IDsOf(FindRequestCandidates(db, driverName, r).policies)
    /\ \A v \in SubjectPool :
          id \notin IDsOf(FindPoliciesForSubject(db, driverName, v).policies)
    /\ \A v \in ResourcePool :
          id \notin IDsOf(FindPoliciesForResource(db, driverName, v).policies)

C8_DeletedNotFound ==
    /\ \A p \in Procs :
          ReturnedOK(calls[p], {"Delete"}) => Absent(calls[p].pol.ID)
    /\ \A row \in db.policy : row.Deleted => Absent(row.ID)
    /\ (res.op = "Get" /\ \E row \in db.policy : row.ID = res.arg /\ row.Deleted)
          => (res.err = ErrResourceNotFound /\ res.policies = {})

\* Get answered not-found for a policy that a successful Delete removed
C8_Witness ==
    \E p \in Procs :
        /\ ReturnedOK(calls[p], {"Delete"})
        /\ \E row \in db.policy : row.ID = calls[p].pol.ID /\ row.Deleted
        /\ Get(calls[p].pre, calls[p].pol.ID).err = "nil"
        /\ res.op = "Get"
        /\ res.arg = calls[p].pol.ID
        /\ res.err = ErrResourceNotFound

\* C9: cascading delete.  After Delete(id) has committed, no relation table
\* holds a row whose policy column is id.
C9_CascadeDelete ==
    \A p \in Procs :
        ReturnedOK(calls[p], {"Delete"}) =>
            \A kind \in KindSet :
                \A rel \in db.rel[kind] : rel.Policy # calls[p].pol.ID

\* C10: content-addressed deduplication.  An entity row's id is the hash of
\* its trimmed template, an entity table holds at most one row per trimmed
\* template, and every policy whose Create or Update committed is related to
\* that one row for each of its stored templates - policies that use the
\* same pattern share the row.
C10_Deduplication ==
    /\ \A t1, t2 \in {S_user, S_userPadded, S_admin, S_blank, EmptyStr} :
          sanitizeTemplate(t1) = sanitizeTemplate(t2) =>
              BuildStandardEntity(builder, t1, "<", ">").b.id
                  = BuildStandardEntity(builder, t2, "<", ">").b.id
    /\ BuildStandardEntity(builder, S_userPadded, "<", ">").entity.ID = Sha256Hex(S_user)
    /\ \A kind \in KindSet : \A e1, e2 \in db.ent[kind] :
          sanitizeTemplate(e1.Template) = sanitizeTemplate(e2.Template) => e1 = e2
    /\ \A kind \in KindSet : \A e \in db.ent[kind] :
          e.ID = Sha256Hex(sanitizeTemplate(e.Template))
    /\ \A o \in origin : \A kind \in KindSet :
          \A t \in ExpectedTemplates(o, kind) :
              \E e \in db.ent[kind] :
                  /\ e.Template = t
                  /\ CreateRelation(o.ID, e.ID) \in db.rel[kind]

\* Two committed policies are related to one and the same entity row, one
\* of them through a padded spelling of the template
C10_Witness ==
    \E kind \in KindSet : \E e \in db.ent[kind] : \E o1, o2 \in origin :
        /\ o1.ID # o2.ID
        /\ CreateRelation(o1.ID, e.ID) \in db.rel[kind]
        /\ CreateRelation(o2.ID, e.ID) \in db.rel[kind]
        /\ \E t \in Range(Items(o2, kind)) : t # e.Template /\ sanitizeTemplate(t) = e.Template
        /\ Cardinality({x \in db.ent[kind] : x.Template = e.Template}) = 1

\* C11: concurrent Creates of policies with distinct ids that all reference
\* the subject 'user'.  No such Create fails with a duplicate-key error on
\* the entity, every one that returned nil has its policy-subject relation
\* row to the entity of 'user', and the subject table holds at most one row
\* for 'user'; once all have returned, all have committed.
C11_ConcurrentCreatesShareEntity ==
    /\ \A p \in Procs :
          (calls[p].pc = "done" /\ calls[p].op = "Create"
              /\ calls[p].pol \in ConcPool[p])
            => /\ calls[p].err = "nil"
               /\ CreateRelation(calls[p].pol.ID, Sha256Hex(S_user))
                      \in db.rel[itemTypeSubject]
    /\ Cardinality({e \in db.ent[itemTypeSubject] : e.Template = S_user}) <= 1

\* C12: Create validates before writing.  A policy whose id is empty or
\* longer than 255 characters, or whose effect is neither 'allow' nor
\* 'deny', is rejected with an error; its call writes nothing, inside or
\* outside the transaction.  Every stored policy row has a non-empty id of
\* at most 255 characters and an effect in {allow, deny}.
Malformed(pol) ==
    \/ pol.ID = EmptyStr
    \/ Len(pol.ID) > PolicyIDMaxLength
    \/ pol.Effect \notin {EffectAllow, EffectDeny}

C12_ValidatesBeforeWriting ==
    /\ \A p \in Procs :
          (calls[p].op = "Create" /\ Malformed(calls[p].pol)) =>
              /\ calls[p].log = <<>>
              /\ db = calls[p].pre
              /\ calls[p].pc = "done" => calls[p].err # "nil"
    /\ \A row \in db.policy :
          /\ row.ID # EmptyStr
          /\ Len(row.ID) <= PolicyIDMaxLength
          /\ row.Effect \in {EffectAllow, EffectDeny}

\* With a policy stored, a Create with an id of 256 characters was rejected
C12_Witness ==
    \E p \in Procs :
        /\ ReturnedErr(calls[p], {"Create"})
        /\ Len(calls[p].pol.ID) = PolicyIDMaxLength + 1
        /\ ~calls[p].fault
        /\ db.policy # {}

\* C13: conditions are never absent.  A policy created with nil conditions
\* is stored with the empty JSON object as its conditions payload (and is
\* not rejected for having none), no policy row has a null conditions
\* payload, and Get returns a conditions collection, possibly empty, for
\* every stored policy.
C13_ConditionsNeverAbsent ==
    /\ \A row \in db.policy : row.Conditions # JSONNull /\ ~row.Conditions.null
    /\ \A o \in origin : \A row \in db.policy :
          (row.ID = o.ID /\ o.Conditions = NilConditions)
              => row.Conditions = JSONEmptyObject
    /\ \A p \in Procs : calls[p].err # "policy conditions cannot be nil"
    /\ \A id \in PolicyIDs : \A x \in Get(db, id).policies :
          /\ x.Conditions # NilConditions
          /\ \A row \in Visible(db) :
                row.ID = id => x.Conditions = Conditions(row.Conditions.keys)
    /\ res.op = "Get" => \A x \in res.policies : x.Conditions # NilConditions

\* Get answered with an empty conditions collection for a policy created
\* with nil conditions, while a policy with a condition is stored as well
C13_Witness ==
    /\ res.op = "Get"
    /\ \E x \in res.policies : x.Conditions = Conditions({})
    /\ \E o \in origin : o.ID = res.arg /\ o.Conditions = NilConditions
    /\ \E row \in db.policy : row.Conditions.keys = {"owner"}

\* C14: engine selection.  When the manager's driver name, lower-cased at
\* construction, is none of postgres, pg, pgx, mysql, each of
\* FindRequestCandidates, FindPoliciesForSubject and FindPoliciesForResource
\* returns the invalid-driver error and no policies; for a supported driver
\* none of them returns that error, and the regex operator is '~' for the
\* postgres family and 'REGEXP BINARY' for mysql.
InvalidDriverResult == [err |-> ErrInvalidDriver, policies |-> {}, len |-> 0]

C14_EngineSelection ==
    /\ driverName \notin SupportedDrivers =>
          /\ \A r \in RequestPool :
                FindRequestCandidates(db, driverName, r) = InvalidDriverResult
          /\ \A v \in SubjectPool :
                FindPoliciesForSubject(db, driverName, v) = InvalidDriverResult
          /\ \A v \in ResourcePool :
                FindPoliciesForResource(db, driverName, v) = InvalidDriverResult
          /\ MatchOperator(driverName) = "none"
    /\ driverName \in SupportedDrivers =>
          /\ \A r \in RequestPool :
                FindRequestCandidates(db, driverName, r).err # ErrInvalidDriver
          /\ \A v \in SubjectPool :
                FindPoliciesForSubject(db, driverName, v).err # ErrInvalidDriver
          /\ \A v \in ResourcePool :
                FindPoliciesForResource(db, driverName, v).err # ErrInvalidDriver
          /\ MatchOperator(driverName) =
                (IF driverName = "mysql" THEN "REGEXP BINARY" ELSE "~")
    /\ driverName \in {"sqlite", "pgx"}
    /\ res.op \in {"FindRequestCandidates", "FindPoliciesForSubject",
                   "FindPoliciesForResource"} =>
          /\ res.err = ErrInvalidDriver <=> driverName \notin SupportedDrivers
          /\ res.err = ErrInvalidDriver => res.policies = {}

\* On a manager built with the driver name 'SQLite', with a policy whose
\* subject is 'user' stored, FindPoliciesForSubject('user') answered with
\* the invalid-driver error
C14_Witness ==
    /\ driverName = "sqlite"
    /\ res.op = "FindPoliciesForSubject"
    /\ res.arg = S_user
    /\ res.err = ErrInvalidDriver
    /\ \E row \in Visible(db) : HasMatch(db, row.ID, itemTypeSubject, S_user)

\* C15: candidate results are deduplicated by policy identifier.  The list
\* returned by FindRequestCandidates, FindPoliciesForSubject or
\* FindPoliciesForResource has one element per policy id (its length is the
\* number of distinct ids in it), also when several entities of a policy
\* match the value.
OncePerID(r) ==
    /\ r.len = Cardinality(IDsOf(r.policies))
    /\ \A x, y \in r.policies : x.ID = y.ID => x = y

C15_DeduplicatedByID ==
    /\ \A r \in RequestPool : OncePerID(FindRequestCandidates(db, driverName, r))
    /\ \A v \in SubjectPool : OncePerID(FindPoliciesForSubject(db, driverName, v))
    /\ \A v \in ResourcePool : OncePerID(FindPoliciesForResource(db, driverName, v))
    /\ res.op \in {"FindRequestCandidates", "FindPoliciesForSubject",
                   "FindPoliciesForResource"} =>
          \A x, y \in res.policies : x.ID = y.ID => x = y

\* FindPoliciesForResource('other:x') answered with a policy that has two
\* resource entities matching 'other:x'
C15_Witness ==
    /\ res.op = "FindPoliciesForResource"
    /\ res.arg = R_otherX
    /\ \E x \in res.policies :
          Cardinality({e \in db.ent[itemTypeResource] :
                          /\ CreateRelation(x.ID, e.ID) \in db.rel[itemTypeResource]
                          /\ EntityMatches(driverName, e, R_otherX)}) >= 2

\* C16: not-found is distinct from empty.  Get(id) for an id with no stored
\* policy returns the not-found error and no policy; GetAll and the three
\* candidate queries return a nil error with whatever they find, an empty
\* list included, and never the not-found error.
FindOps == {"FindRequestCandidates", "FindPoliciesForSubject", "FindPoliciesForResource"}

C16_NotFoundVersusEmpty ==
    /\ \A id \in PolicyIDs \cup {EmptyStr, ID_long} :
          IF \E row \in Visible(db) : row.ID = id
          THEN Get(db, id).err = "nil" /\ Get(db, id).policies # {}
          ELSE Get(db, id) = [err |-> ErrResourceNotFound, policies |-> {}]
    /\ \A l \in LimitPool, o \in OffsetPool : GetAll(db, l, o).err = "nil"
    /\ \A r \in RequestPool : FindRequestCandidates(db, driverName, r).err = "nil"
    /\ \A v \in SubjectPool : FindPoliciesForSubject(db, driverName, v).err = "nil"
    /\ \A v \in ResourcePool : FindPoliciesForResource(db, driverName, v).err = "nil"
    /\ res.op \in FindOps \cup {"GetAll"} => res.err = "nil"
    /\ res.op = "Get" =>
          /\ res.err \in {"nil", ErrResourceNotFound}
          /\ res.err = ErrResourceNotFound <=> res.policies = {}
          /\ res.err = ErrResourceNotFound <=> ~\E row \in Visible(db) : row.ID = res.arg

\* With a policy stored, Get of an id that was never created answered
\* not-found, and FindPoliciesForSubject('administrator') is empty without
\* an error
C16_Witness ==
    /\ res.op = "Get"
    /\ res.err = ErrResourceNotFound
    /\ res.policies = {}
    /\ \A row \in db.policy : row.ID # res.arg
    /\ Visible(db) # {}
    /\ FindPoliciesForSubject(db, driverName, S_administrator)
          = [err |-> "nil", policies |-> {}, len |-> 0]

\* C17: pattern classification.  For every template and delimiter pair, the
\* has_regex flag of the entity built and written for it is true exactly
\* when the trimmed template contains the start delimiter: false for
\* 'admin', true for 'u:<.*>' with delimiters '<','>', false for 'u:<.*>'
\* with delimiters '{','}'.
TemplatePool ==
    {S_userPadded, S_admin, S_userPattern, S_badStar, S_blank, A_braceA}

Classified(t, ds, de) == BuildStandardEntity(builder, t, ds, de)

ErrEmptyTemplate == "template cannot be empty after sanitization"

C18_SanitizedOrRejected ==
    /\ Classified(S_userPadded, "<", ">").err = "nil"
    /\ Classified(S_userPadded, "<", ">").entity.Template = S_user
    /\ Classified(S_userPadded, "<", ">").entity = Classified(S_user, "<", ">").entity
    /\ \A t \in {S_blank, EmptyStr} :
          /\ WithTemplate(Reset(builder), t).err = ErrEmptyTemplate
          /\ Classified(t, "<", ">") = [b |-> [NewEntityBuilder EXCEPT !.err = ErrEmptyTemplate],
                                        entity |-> ZeroEntity, err |-> ErrEmptyTemplate]
    /\ \A kind \in KindSet : \A e \in db.ent[kind] :
          /\ e.Template # EmptyStr
          /\ e.Template = TrimRight(TrimLeft(e.Template))
          /\ e.Template \notin {S_userPadded, S_blank}
    /\ \A p \in Procs : \A n \in 1..Len(calls[p].log) :
          LET w == calls[p].log[n]
          IN w.t = "insertEntity" =>
                /\ w.row.Template # EmptyStr
                /\ w.row.Template = TrimRight(TrimLeft(w.row.Template))

\* A policy given the subject ' user ' and the action ' ' has committed: the
\* subject is stored as 'user', and nothing is stored for the blank action
C18_Witness ==
    \E o \in origin :
        /\ S_userPadded \in Range(o.Subjects)
        /\ S_blank \in Range(o.Actions)
        /\ \E e \in db.ent[itemTypeSubject] :
              /\ e.Template = S_user
              /\ CreateRelation(o.ID, e.ID) \in db.rel[itemTypeSubject]
        /\ Cardinality({rel \in db.rel[itemTypeAction] : rel.Policy = o.ID}) = 1

\* C19: one handling of an offending pattern in the write path.  When a
\* template of a policy cannot be built - empty after trimming, with
\* unbalanced delimiters, or with an invalid expression - Create and Update skip
\* it, go on with the remaining templates of every kind, commit and return
\* no error; subjects, actions and resources are treated alike, and no
\* entity or relation row is written for the skipped template.
Offending(pol, kind) ==
    {t \in Range(Items(pol, kind)) :
        ~Storable(t, pol.StartDelimiter, pol.EndDelimiter)}

HasOffending(pol) == \E kind \in KindSet : Offending(pol, kind) # {}

C19_OffendingPatternSkipped ==
    /\ \A p \in Procs :
          LET c == calls[p]
          IN (c.pc = "done" /\ c.op \in {"Create", "Update"} /\ ~c.fault
                 /\ HasOffending(c.pol)
                 /\ createValidate(c.pol) = "nil"
                 /\ (c.op = "Create" => \A row \in c.pre.policy : row.ID # c.pol.ID))
               => /\ c.err = "nil"
                  /\ \A kind \in KindSet :
                        {rel \in db.rel[kind] : rel.Policy = c.pol.ID}
                            = {CreateRelation(c.pol.ID, Sha256Hex(t)) :
                                   t \in ExpectedTemplates(c.pol, kind)}
    /\ \A o \in origin : \A kind \in KindSet : \A t \in Offending(o, kind) :
          /\ \A e \in db.ent[kind] :
                e.Template # t /\ e.Template # sanitizeTemplate(t)
          /\ \A rel \in db.rel[kind] :
                rel.Entity \notin {Sha256Hex(t), Sha256Hex(sanitizeTemplate(t))}

\* The part of C19 that does not rest on replacing a stored policy: a
\* Create or Update of an id that has no row skips the offending templates
\* and commits the others.
C19_SkippedWhenIDUnused ==
    \A p \in Procs :
        LET c == calls[p]
        IN (c.pc = "done" /\ c.op \in {"Create", "Update"} /\ ~c.fault
               /\ HasOffending(c.pol)
               /\ \A row \in c.pre.policy : row.ID # c.pol.ID)
             => /\ c.err = "nil"
                /\ \A kind \in KindSet :
                      {rel \in db.rel[kind] : rel.Policy = c.pol.ID}
                          = {CreateRelation(c.pol.ID, Sha256Hex(t)) :
                                 t \in ExpectedTemplates(c.pol, kind)}

\* C20: entity kinds are separate namespaces.  A call writes the entity and
\* relation rows of a template only into the tables of the kind the
\* template was given as, every stored entity row of a kind stems from a
\* committed policy that lists its template under that kind, and a policy
\* whose only 'read' is an action is returned neither by
\* FindPoliciesForSubject('read') nor by FindPoliciesForResource('read').
Sanitized(pol, kind) == {sanitizeTemplate(t) : t \in Range(Items(pol, kind))}

C20_KindsAreSeparate ==
    /\ \A p \in Procs : \A n \in 1..Len(calls[p].log) :
          LET w == calls[p].log[n]
          IN /\ w.t = "insertEntity" => w.row.Template \in Sanitized(calls[p].pol, w.kind)
             /\ w.t = "insertRelation" =>
                   /\ w.row.Policy = calls[p].pol.ID
                   /\ \E t \in Sanitized(calls[p].pol, w.kind) : w.row.Entity = Sha256Hex(t)
    /\ \A kind \in KindSet : \A e \in db.ent[kind] :
          \E o \in origin : e.Template \in ExpectedTemplates(o, kind)
    /\ \A kind \in KindSet : \A rel \in db.rel[kind] :
          \E o \in origin :
              /\ rel.Policy = o.ID
              /\ \E t \in ExpectedTemplates(o, kind) : rel.Entity = Sha256Hex(t)
    /\ \A o \in origin :
          /\ A_read \notin Sanitized(o, itemTypeSubject) =>
                o.ID \notin IDsOf(FindPoliciesForSubject(db, driverName, A_read).policies)
          /\ A_read \notin Sanitized(o, itemTypeResource) =>
                o.ID \notin IDsOf(FindPoliciesForResource(db, driverName, A_read).policies)
    /\ (res.op \in {"FindPoliciesForSubject", "FindPoliciesForResource"}
           /\ res.arg = A_read) => res.policies = {}

\* FindPoliciesForResource('read') answered with no policy while a stored
\* policy has the action 'read' and the action table holds its row
C20_Witness ==
    /\ res.op = "FindPoliciesForResource"
    /\ res.arg = A_read
    /\ res.policies = {}
    /\ res.err = "nil"
    /\ \E row \in Visible(db) : HasMatch(db, row.ID, itemTypeAction, A_read)
    /\ \A e \in db.ent[itemTypeSubject] \cup db.ent[itemTypeResource] :
          e.Template # A_read

\* C21: entities are write-once and never removed.  No step of a Create,
\* Update or Delete removes an entity row or changes the template, compiled
\* expression or has_regex flag of a row that exists; a Delete that commits
\* leaves every entity row in place, also the rows that no remaining policy
\* references.
C21_EntitiesWriteOnce ==
    [][\A kind \in KindSet : \A e \in db.ent[kind] :
          /\ e \in db'.ent[kind]
          /\ \A x \in db'.ent[kind] : x.ID = e.ID => x = e]_vars

\* A Delete has committed and left behind an entity row that only the
\* deleted policy references
C21_Witness ==
    \E p \in Procs : \E kind \in KindSet : \E e \in db.ent[kind] :
        /\ ReturnedOK(calls[p], {"Delete"})
        /\ e \in calls[p].pre.ent[kind]
        /\ CreateRelation(calls[p].pol.ID, e.ID) \in calls[p].pre.rel[kind]
        /\ \E row \in Visible(calls[p].pre) : row.ID = calls[p].pol.ID
        /\ \A row \in Visible(db) : CreateRelation(row.ID, e.ID) \notin db.rel[kind]

\* C22: relation rows are unique per (policy, entity) pair and repeated
\* input strings are tolerated.  A Create of a valid policy with an unused
\* id whose subject (action, resource) list holds the same string twice, or
\* strings that differ only in surrounding whitespace, returns nil and
\* leaves exactly one relation row for that pair; no transaction inserts the
\* same relation row twice.
HasRepeated(pol) ==
    \E kind \in KindSet : \E m, n \in 1..Len(Items(pol, kind)) :
        /\ m # n
        /\ sanitizeTemplate(Items(pol, kind)[m]) = sanitizeTemplate(Items(pol, kind)[n])
        /\ Storable(Items(pol, kind)[m], pol.StartDelimiter, pol.EndDelimiter)

RelationRows(d, kind, policyID, entityID) ==
    {rel \in d.rel[kind] : rel.Policy = policyID /\ rel.Entity = entityID}

C22_RelationsUnique ==
    /\ \A p \in Procs :
          LET c == calls[p]
          IN (c.pc = "done" /\ c.op = "Create" /\ ~c.fault /\ HasRepeated(c.pol)
                 /\ createValidate(c.pol) = "nil"
                 /\ \A row \in c.pre.policy : row.ID # c.pol.ID)
               => /\ c.err = "nil"
                  /\ \A kind \in KindSet : \A t \in ExpectedTemplates(c.pol, kind) :
                        Cardinality(RelationRows(db, kind, c.pol.ID, Sha256Hex(t))) = 1
    /\ \A p \in Procs : \A m, n \in 1..Len(calls[p].log) :
          (m # n /\ calls[p].log[m].t = "insertRelation")
              => calls[p].log[m] # calls[p].log[n]
    /\ \A p \in Procs :
          (calls[p].pc = "commit" /\ calls[p].op = "Create") =>
              \A kind \in KindSet : \A t \in ExpectedTemplates(calls[p].pol, kind) :
                  Cardinality({n \in 1..Len(calls[p].log) :
                                  calls[p].log[n] = WInsertRelation(kind,
                                      CreateRelation(calls[p].pol.ID, Sha256Hex(t)))}) = 1

\* A policy listing ' user ' and 'user' as subjects was created and has its
\* one relation row to the entity of 'user'
C22_Witness ==
    \E p \in Procs :
        /\ ReturnedOK(calls[p], {"Create"})
        /\ S_userPadded \in Range(calls[p].pol.Subjects)
        /\ S_user \in Range(calls[p].pol.Subjects)
        /\ RelationRows(db, itemTypeSubject, calls[p].pol.ID, Sha256Hex(S_user))
              = {CreateRelation(calls[p].pol.ID, Sha256Hex(S_user))}

\* C23: no caching.  The answer of every Get, GetAll and candidate query is
\* the one computed from the tables as they are stored when it is issued: a
\* policy with a subject matching the request is returned by a candidate
\* query issued after its Create committed, and no query issued after its
\* Delete committed returns it.
Current(r) ==
    CASE r.op = "Get" -> Get(db, r.arg)
      [] r.op = "GetAll" -> GetAll(db, r.arg[1], r.arg[2])
      [] r.op = "FindRequestCandidates" -> FindRequestCandidates(db, driverName, r.arg)
      [] r.op = "FindPoliciesForSubject" -> FindPoliciesForSubject(db, driverName, r.arg)
      [] r.op = "FindPoliciesForResource" -> FindPoliciesForResource(db, driverName, r.arg)

C23_NoCaching ==
    /\ res.op # "none" =>
          /\ res.err = Current(res).err
          /\ res.policies = Current(res).policies
    /\ \A p \in Procs :
          ReturnedOK(calls[p], {"Create"}) =>
              \A r \in RequestPool :
                  /\ HasMatch(db, calls[p].pol.ID, itemTypeSubject, r.Subject)
                        => calls[p].pol.ID \in
                              IDsOf(FindRequestCandidates(db, driverName, r).policies)
                  /\ (res.op = "FindRequestCandidates" /\ res.arg = r
                         /\ HasMatch(db, calls[p].pol.ID, itemTypeSubject, r.Subject))
                        => calls[p].pol.ID \in IDsOf(res.policies)
    /\ \A p \in Procs :
          (ReturnedOK(calls[p], {"Delete"}) /\ res.op # "none") =>
              calls[p].pol.ID \notin
                  IDsOf(IF res.op = "GetAll" THEN Range(res.policies) ELSE res.policies)

\* A candidate query issued after a Delete committed returns no policy,
\* while the same query on the tables before the Delete returned the
\* deleted one
C23_Witness ==
    \E p \in Procs :
        /\ ReturnedOK(calls[p], {"Delete"})
        /\ res.op = "FindRequestCandidates"
        /\ res.policies = {}
        /\ calls[p].pol.ID \in
              IDsOf(FindRequestCandidates(calls[p].pre, driverName, res.arg).policies)

\* C24 as stated: each read is a single query, so no write commits between
\* the statements of a read, and the policy a read returns - its row with
\* its subject, action and resource lists - is the one of the tables as
\* stored at that query.
AtMainQuery(c) ==
    CASE c.op = "Get" -> Get(c.pre, c.pol.ID)
      [] c.op = "GetAll" -> GetAll(c.pre, c.pol.ID[1], c.pol.ID[2])
      [] c.op = "FindRequestCandidates" ->
           FindRequestCandidates(c.pre, driverName, c.pol.ID)

ReadsOneCommittedState ==
    \A q \in Procs :
        LET c == calls[q]
        IN /\ Reading(c) =>
                 \A n \in 1..(c.k - 1) :
                     c.item[Kinds[n]] = PreloadRows(c.pre, c.rels, Kinds[n])
           /\ (c.op \in ReadOps /\ c.pc = "done" /\ res.op # "none") =>
                 /\ res.op = c.op /\ res.arg = c.pol.ID
                 /\ res.err = AtMainQuery(c).err
                 /\ res.policies = AtMainQuery(c).policies

C24_SingleQueryReads ==
    /\ \A q \in Procs : Reading(calls[q]) => db = calls[q].pre
    /\ ReadsOneCommittedState

\* C24 amended: a read is a main SELECT followed by three Preload
\* statements, outside any transaction, and writes do commit between them.
\* The policy a read returns still is, row and lists, the one of the tables
\* as committed when its main SELECT ran: no list is mixed from another
\* version and no relation is missing.
C24_ReadsOneCommittedState ==
    /\ ReadsOneCommittedState
    /\ \A q \in Procs :
          (calls[q].op \in ReadOps /\ calls[q].pc = "done" /\ res.op \in {"Get", "FindRequestCandidates"}) =>
              \A x \in res.policies : \A kind \in KindSet :
                  \A rel \in calls[q].pre.rel[kind] :
                      rel.Policy = x.ID =>
                          \E e \in calls[q].pre.ent[kind] :
                              /\ e.ID = rel.Entity
                              /\ e.Template \in
                                    (CASE kind = itemTypeSubject -> x.Subjects
                                       [] kind = itemTypeAction -> x.Actions
                                       [] kind = itemTypeResource -> x.Resources)

\* A Delete of the policy a Get has selected committed before the last
\* Preload of that Get
C24_Witness ==
    \E q \in Procs :
        /\ Reading(calls[q])
        /\ calls[q].op = "Get"
        /\ calls[q].k = Len(Kinds)
        /\ calls[q].rels # <<>>
        /\ \E row \in db.policy : row.ID = calls[q].pol.ID /\ row.Deleted
        /\ db # calls[q].pre

\* C25: GetAll(limit, offset) paginates over the stored, not deleted
\* policies in ascending id order.  A page holds at most limit policies, in
\* ascending id order and without gaps, exactly offset stored policies
\* precede its first one, and each policy comes with its full subject,
\* action and resource lists; with no write in between, the pages for the
\* offsets 0, limit, 2*limit, ... are disjoint and together hold every
\* stored policy exactly once.
Page(l, o) == GetAll(db, l, o).policies

RECURSIVE Pages(_, _, _)
Pages(l, k, n) ==
    IF k * l >= n THEN <<>> ELSE Page(l, k * l) \o Pages(l, k + 1, n)

Min(a, b) == IF a < b THEN a ELSE b

C25_Pagination ==
    LET ids == {row.ID : row \in Visible(db)}
        n == Cardinality(ids)
    IN /\ \A l \in PageLimits : \A o \in PageOffsets :
             LET G == Page(l, o)
             IN /\ GetAll(db, l, o).err = "nil"
                /\ Len(G) <= l
                /\ Len(G) = IF o >= n THEN 0 ELSE Min(l, n - o)
                /\ \A i \in 1..Len(G) :
                      /\ \E row \in Visible(db) :
                            row.ID = G[i].ID /\ G[i] = convertPolicyToLadon(db, row)
                      /\ Cardinality({id \in ids : StrLess(id, G[i].ID)}) = o + i - 1
                /\ \A i, j \in 1..Len(G) : i < j => StrLess(G[i].ID, G[j].ID)
       /\ \A l \in PageLimits :
             /\ Len(Pages(l, 0, n)) = n
             /\ {x.ID : x \in Range(Pages(l, 0, n))} = ids
             /\ \A k1, k2 \in 0..n :
                   k1 # k2 => IDsOf(Range(Page(l, k1 * l))) \cap IDsOf(Range(Page(l, k2 * l))) = {}
       /\ res.op = "GetAll" =>
             res.policies = Page(res.arg[1], res.arg[2]) /\ res.err = "nil"

\* With p, p10 and p2 stored and p1 deleted, GetAll(2, 1) answered with
\* p10 and p2, in this order
C25_Witness ==
    /\ {row.ID : row \in Visible(db)} = {ID_p, ID_p10, ID_p2}
    /\ \E row \in db.policy : row.ID = ID_p1 /\ row.Deleted
    /\ res.op = "GetAll"
    /\ res.arg = <<2, 1>>
    /\ Len(res.policies) = 2
    /\ res.policies[1].ID = ID_p10
    /\ res.policies[2].ID = ID_p2
    /\ res.policies[1].Subjects = {S_user}

\* C26: Build returns an entity only from a complete builder.  Build
\* returns a nil error exactly when no step has recorded an error, the
\* template, the id and the compiled expression are set, and they are
\* within the length bounds (id 64, template 511, compiled 511); it then
\* returns the entity made of the builder's fields.  In every other case -
\* no GenerateID / WithCustomID, no CompileTemplate, a 600-character
\* template - it returns an error and the zero-value entity.
Complete(b) ==
    /\ b.err = "nil"
    /\ b.template # EmptyStr /\ Len(b.template) <= TemplateMaxLength
    /\ b.id # NoID /\ IDLen(b.id) <= EntityIDMaxLength
    /\ b.compiled # EmptyStr /\ Len(b.compiled) <= CompiledMaxLength

BuildsFrom(b) ==
    IF Complete(b)
    THEN Build(b) = [entity |-> [ID |-> b.id, HasRegex |-> b.hasRegex,
                                 Compiled |-> b.compiled, Template |-> b.template],
                     err |-> "nil"]
    ELSE Build(b).err # "nil" /\ Build(b).entity = ZeroEntity

\* The builder as the chain WithTemplate . WithDelimiters . GenerateID .
\* CompileTemplate leaves it for the template 'a' x 600, and as
\* WithTemplate('admin') . CompileTemplate . WithTemplate('a' x 600) .
\* GenerateID leaves it
T_600 == [n \in 1..600 |-> "a"]
B_600 ==
    [NewEntityBuilder EXCEPT !.template = T_600, !.startDelim = "<", !.endDelim = ">",
                             !.id = Sha256Hex(T_600),
                             !.compiled = <<"^">> \o T_600 \o <<"$">>]
B_600Late ==
    [NewEntityBuilder EXCEPT !.template = T_600, !.id = Sha256Hex(T_600),
                             !.compiled = <<"^">> \o S_admin \o <<"$">>]

C26_BuildOnlyWhenComplete ==
    /\ BuildsFrom(builder)
    /\ \A id \in CustomIDPool : BuildsFrom(WithCustomID(builder, id))
    /\ BuildsFrom(GenerateID(builder))
    /\ BuildsFrom(B_600) /\ ~Complete(B_600)
    /\ BuildsFrom(B_600Late) /\ ~Complete(B_600Late)
    /\ Build(B_600Late).err = "template field exceeds maximum length"
    /\ Build(WithDelimiters(WithTemplate(NewEntityBuilder, S_admin), "<", ">")).err
          = "ID is required"
    /\ Build(GenerateID(WithTemplate(NewEntityBuilder, S_admin))).err
          = "compiled template is required"
    /\ res.op = "Build" =>
          /\ res.err = Build(builder).err
          /\ res.policies = {Build(builder).entity}
          /\ res.err = "nil" <=> Complete(builder)
          /\ res.err # "nil" => res.policies = {ZeroEntity}

\* Build refused a builder that has everything set but carries a custom id
\* of 65 characters
C26_Witness ==
    /\ res.op = "Build"
    /\ res.err = "entity ID exceeds maximum length"
    /\ res.policies = {ZeroEntity}
    /\ builder.err = "nil"
    /\ builder.id = ID_custom65
    /\ builder.template # EmptyStr
    /\ builder.compiled # EmptyStr

\* C27: builder errors are sticky.  Once a step has recorded an error,
\* every later WithTemplate, WithDelimiters, GenerateID, CompileTemplate and
\* WithCustomID leaves all builder fields and the recorded error as they
\* are, and Build returns that error with the zero-value entity (empty ID
\* and Template); only Reset clears it.
StepOps == {"WithTemplate", "WithDelimiters", "GenerateID", "CompileTemplate",
            "WithCustomID"}

C27_ErrorsSticky ==
    [][builder.err # "nil" =>
          /\ \A t \in BuilderTemplates : WithTemplate(builder, t) = builder
          /\ \A dl \in DelimiterPool : WithDelimiters(builder, dl[1], dl[2]) = builder
          /\ GenerateID(builder) = builder
          /\ CompileTemplate(builder) = builder
          /\ \A id \in CustomIDPool : WithCustomID(builder, id) = builder
          /\ res'.op \in StepOps =>
                builder' = builder /\ res'.err = builder.err
          /\ res'.op = "Build" =>
                /\ builder' = builder
                /\ res'.err = builder.err
                /\ \A e \in res'.policies : e.ID = NoID /\ e.Template = EmptyStr
          /\ builder'.err \in {builder.err, "nil"} \/
                res'.op \in {"BuildStandardEntity", "BuildEntityWithCustomID"}]_vars

\* CompileTemplate was called on a builder holding the error of an empty
\* custom id: the template set before the error is kept, nothing was
\* compiled
C27_Witness ==
    /\ res.op = "CompileTemplate"
    /\ res.err = "custom ID cannot be empty"
    /\ builder.err = "custom ID cannot be empty"
    /\ builder.template = S_admin
    /\ builder.compiled = EmptyStr
    /\ builder.id = NoID

\* C28: Reset restores the initial builder state.  Whatever calls preceded
\* it, failed ones included, Reset leaves the builder as NewEntityBuilder
\* made it, so a chain run after Reset gives the result it gives on a fresh
\* builder, and BuildStandardEntity returns a result that depends on its
\* arguments only, not on earlier builds.
StandardChain(b, t, ds, de) ==
    Build(CompileTemplate(GenerateID(WithDelimiters(WithTemplate(b, t), ds, de))))

C28_ResetRestoresInitial ==
    /\ Reset(builder) = NewEntityBuilder
    /\ Reset(builder).err = "nil"
    /\ \A t \in BuilderTemplates : \A dl \in DelimiterPool :
          /\ StandardChain(Reset(builder), t, dl[1], dl[2])
                = StandardChain(NewEntityBuilder, t, dl[1], dl[2])
          /\ BuildStandardEntity(builder, t, dl[1], dl[2])
                = BuildStandardEntity(NewEntityBuilder, t, dl[1], dl[2])
          /\ \A id \in CustomIDPool :
                BuildEntityWithCustomID(builder, t, id, dl[1], dl[2])
                    = BuildEntityWithCustomID(NewEntityBuilder, t, id, dl[1], dl[2])
    /\ res.op = "Reset" => builder = NewEntityBuilder /\ res.err = "nil"
    /\ res.op = "BuildStandardEntity" =>
          \E t \in BuilderTemplates : \E dl \in DelimiterPool :
              LET r == BuildStandardEntity(NewEntityBuilder, t, dl[1], dl[2])
              IN builder = r.b /\ res.err = r.err /\ res.policies = {r.entity}

\* The director's last build failed on '<*>' and left its error in the
\* builder; Reset clears that builder, and BuildStandardEntity of 'admin'
\* on it returns the entity of 'admin'
C28_Witness ==
    /\ res.op = "BuildStandardEntity"
    /\ res.err = "compile error"
    /\ builder.err = "compile error"
    /\ builder.template = S_badStar
    /\ Reset(builder) = NewEntityBuilder
    /\ BuildStandardEntity(builder, S_admin, "<", ">").err = "nil"
    /\ BuildStandardEntity(builder, S_admin, "<", ">").entity.Template = S_admin

\* C29: custom identifiers.  WithCustomID with a non-empty id sets the
\* builder's id to exactly that id, and an entity built from it carries that
\* id, not the content hash, whatever the template is; WithCustomID with an
\* empty id records an error, so Build fails.  BuildEntityWithCustomID
\* returns, for an id of at most 64 characters, the entity that
\* BuildStandardEntity returns for the template, with the given id in place
\* of the hash and the trimmed template.
ErrEmptyCustomID == "custom ID cannot be empty"

C29_CustomIdentifiers ==
    /\ builder.err = "nil" =>
          /\ \A id \in CustomIDPool \ {NoID} :
                LET b2 == WithCustomID(builder, id)
                IN /\ b2 = [builder EXCEPT !.id = id]
                   /\ Build(b2).err = "nil" =>
                         /\ Build(b2).entity.ID = id
                         /\ Build(b2).entity.ID # Sha256Hex(b2.template)
          /\ WithCustomID(builder, CustomID(EmptyStr))
                = [builder EXCEPT !.err = ErrEmptyCustomID]
          /\ Build(WithCustomID(builder, CustomID(EmptyStr)))
                = [entity |-> ZeroEntity, err |-> ErrEmptyCustomID]
    /\ \A t \in BuilderTemplates : \A dl \in DelimiterPool : \A id \in CustomIDPool :
          LET r == BuildEntityWithCustomID(builder, t, id, dl[1], dl[2])
              std == BuildStandardEntity(builder, t, dl[1], dl[2])
          IN IF id = NoID \/ IDLen(id) > EntityIDMaxLength
             THEN r.err # "nil" /\ r.entity = ZeroEntity
             ELSE /\ r.err = std.err
                  /\ r.err = "nil" =>
                        /\ r.entity = [std.entity EXCEPT !.ID = id]
                        /\ r.entity.Template = sanitizeTemplate(t)
    /\ (res.op = "BuildEntityWithCustomID" /\ res.err = "nil") =>
          \A e \in res.policies :
              /\ e.ID \in CustomIDPool \ {NoID}
              /\ e.ID = builder.id
              /\ e.Template = builder.template
              /\ e.Template = sanitizeTemplate(e.Template)
    /\ (res.op = "WithCustomID" /\ res.err = "nil") => builder.id \in CustomIDPool \ {NoID}

\* BuildEntityWithCustomID(' user ', 'c1', ...) returned the entity with
\* the id 'c1' and the template 'user'
C29_Witness ==
    /\ res.op = "BuildEntityWithCustomID"
    /\ res.err = "nil"
    /\ \E e \in res.policies :
          /\ e.ID = ID_custom
          /\ e.Template = S_user
          /\ e.ID # Sha256Hex(S_user)

\* C30: a deleted policy id can be reused.  After Delete(id) has succeeded,
\* a Create of a valid policy with the same id returns nil, and Get(id) then
\* returns the new policy with the subjects, actions and resources of the
\* new policy only.
C30_DeletedIDReusable ==
    \A p \in Procs :
        LET c == calls[p]
        IN (c.pc = "done" /\ c.op = "Create" /\ ~c.fault
               /\ createValidate(c.pol) = "nil"
               /\ (\E row \in c.pre.policy : row.ID = c.pol.ID)
               /\ (\A old \in c.pre.policy : old.ID = c.pol.ID => old.Deleted))
             => /\ c.err = "nil"
                /\ Get(db, c.pol.ID).err = "nil"
                /\ \A x \in Get(db, c.pol.ID).policies :
                      /\ x.Effect = c.pol.Effect
                      /\ x.Subjects = ExpectedTemplates(c.pol, itemTypeSubject)
                      /\ x.Actions = ExpectedTemplates(c.pol, itemTypeAction)
                      /\ x.Resources = ExpectedTemplates(c.pol, itemTypeResource)

\* What one call's chain yields for the template t of pol: the entity of
\* BuildStandardEntity run undisturbed on a builder of its own
OwnEntity(pol, t) ==
    BuildStandardEntity(NewEntityBuilder, t, pol.StartDelimiter, pol.EndDelimiter)

\* C31: concurrent Create calls on one manager share no mutable in-process
\* state.  Every entity row written is, in all four fields, the entity that
\* one call derives from one of its own templates of that kind under its
\* own delimiters, and every relation row of a policy points to the entity
\* of one of that policy's own templates of that kind.
C31_NoSharedMutableState ==
    /\ \A kind \in KindSet : \A e \in db.ent[kind] :
          \E p \in Procs : \E pol \in ConcPool[p] :
              \E t \in Range(Items(pol, kind)) :
                  /\ OwnEntity(pol, t).err = "nil"
                  /\ e = OwnEntity(pol, t).entity
    /\ \A kind \in KindSet : \A rel \in db.rel[kind] :
          \E p \in Procs : \E pol \in ConcPool[p] :
              /\ pol.ID = rel.Policy
              /\ \E t \in Range(Items(pol, kind)) :
                    /\ OwnEntity(pol, t).err = "nil"
                    /\ rel.Entity = OwnEntity(pol, t).entity.ID

\* C32: stored entity data agrees with every referencing policy.  For each
\* relation row (policy P, entity E), E's has_regex flag and compiled
\* expression are what compiling E's template with the delimiters of P, as
\* P was created, yields.
C32_EntityAgreesWithPolicy ==
    \A kind \in KindSet : \A rel \in db.rel[kind] :
        \A o \in origin : \A e \in db.ent[kind] :
            (o.ID = rel.Policy /\ e.ID = rel.Entity)
              => LET c == CompileRegex(e.Template, o.StartDelimiter, o.EndDelimiter)
                 IN /\ ~c.err
                    /\ e.Compiled = c.re
                    /\ e.HasRegex = ContainsChar(e.Template, o.StartDelimiter)

\* C33: sequential Creates of valid policies never fail on entity
\* uniqueness.  A Create of a valid policy whose id no stored row carries,
\* run with no other writer and no storage fault, returns nil whatever
\* entities are stored.
C33_CreateNeverFailsOnEntity ==
    LET c == calls[SeqProc]
    IN (c.pc = "done" /\ c.op = "Create" /\ ~c.fault
           /\ createValidate(c.pol) = "nil"
           /\ \A row \in c.pre.policy : row.ID # c.pol.ID)
         => c.err = "nil"

\* C34: derived builder fields are never stale.  Whenever Build succeeds
\* on a builder whose id was set by GenerateID, the returned entity has
\* ID = hex SHA-256 of its Template, and its Compiled and HasRegex are the
\* compilation and classification of that same Template under the
\* delimiters the builder holds.
C34_DerivedFieldsFresh ==
    (res.op = "Build" /\ res.err = "nil")
      => \A e \in res.policies :
            e.ID.hash
              => LET c == CompileRegex(e.Template, builder.startDelim, builder.endDelim)
                 IN /\ e.ID = Sha256Hex(e.Template)
                    /\ ~c.err
                    /\ e.Compiled = c.re
                    /\ e.HasRegex = ContainsChar(e.Template, builder.startDelim)

\* C35: Delete is idempotent and total.  A Delete(id) that no storage fault
\* interrupts returns nil.  When no stored policy has the id (never
\* created, or already deleted) the policy, entity and relation tables are
\* left as they were; in every case the entity and relation tables and
\* every policy row of another id are left as they were.
C35_DeleteIdempotent ==
    LET c == calls[SeqProc]
    IN (c.pc = "done" /\ c.op = "Delete" /\ ~c.fault)
         => /\ c.err = "nil"
            /\ (\A row \in Visible(c.pre) : row.ID # c.pol.ID) => db = c.pre
            /\ db.ent = c.pre.ent
            /\ db.rel = c.pre.rel
            /\ {row \in db.policy : row.ID # c.pol.ID}
                 = {row \in c.pre.policy : row.ID # c.pol.ID}

\* A Delete of an already deleted id has returned nil next to a stored
\* policy of another id, and the tables are non-empty and as before
C35_Witness ==
    LET c == calls[SeqProc]
    IN /\ c.pc = "done" /\ c.op = "Delete" /\ ~c.fault
       /\ c.err = "nil"
       /\ \E row \in c.pre.policy : row.ID = c.pol.ID /\ row.Deleted
       /\ \E row \in Visible(c.pre) : row.ID # c.pol.ID
       /\ db = c.pre

\* C36: Update of an id that is not stored behaves as Create.  An Update
\* of a valid policy whose id no visible policy row carries, run without a
\* storage fault, returns nil and leaves what Create leaves: the tables it
\* found plus the policy row of the new policy, with entity and relation
\* rows only added.
C36_UpdateOfUnstoredIsCreate ==
    LET c == calls[SeqProc]
    IN (c.pc = "done" /\ c.op = "Update" /\ ~c.fault
           /\ createValidate(c.pol) = "nil"
           /\ \A row \in Visible(c.pre) : row.ID # c.pol.ID)
         => /\ c.err = "nil"
            /\ db.policy = c.pre.policy \cup {PolicyModel(c.pol)}
            /\ \A kind \in KindSet :
                  /\ c.pre.ent[kind] \subseteq db.ent[kind]
                  /\ c.pre.rel[kind] \subseteq db.rel[kind]

\* C37: Create with an id that is already stored fails and changes
\* nothing.  A Create of a policy whose id a stored policy carries never
\* gets past the insert of the policy row: it executes no statement that
\* writes (no policy, entity or relation row), it returns an error, and
\* the committed tables stay the tables it found.
C37_CreateOfStoredIDFails ==
    LET c == calls[SeqProc]
    IN (c.op = "Create" /\ c.pc # "idle"
           /\ \E row \in Visible(c.pre) : row.ID = c.pol.ID)
         => /\ c.pc \in {"create", "done"}
            /\ c.log = <<>>
            /\ db = c.pre
            /\ c.pc = "done" => c.err # "nil"

\* A Create of a valid policy on the id of a stored, different policy has
\* returned the duplicate-key error of the policy table
C37_Witness ==
    LET c == calls[SeqProc]
    IN /\ c.pc = "done" /\ c.op = "Create" /\ ~c.fault
       /\ createValidate(c.pol) = "nil"
       /\ c.err = "duplicate key: ladon_policy"
       /\ \E row \in Visible(c.pre) : row.ID = c.pol.ID
       /\ \E o \in origin : o.ID = c.pol.ID /\ o.Subjects # c.pol.Subjects
       /\ db = c.pre

\* Values handed to the detector and the strategies: relations of the
\* three kinds over the stored ids, and a value that is no relation
NotARelation == [rel |-> "string", Policy |-> EmptyStr, Entity |-> NoID]
RelationPool ==
    {PolicyRel(k, id, e) : k \in KindSet, id \in PolicyIDs, e \in EntityIDs(db)}
        \cup {NotARelation}
AllStrategies == StrategyPool \cup {Strategy(k, 0) : k \in KindSet}
AllFactories == FactoryPool \cup {Factory(k, 0) : k \in KindSet}
Without(r, key) == [k \in DOMAIN r \ {key} |-> r[k]]

\* C38: relation dispatch is kind-consistent.  A factory's CreateRelation
\* yields a relation of the factory's kind with exactly the two ids given.
\* DetectAndGetStrategy returns, for a relation of kind K, the strategy
\* registered for K - in a new registry K's own strategy - and
\* ErrInvalidRelationType for a value that is no relation or when no
\* strategy is registered for K.  A strategy's PersistRelation rejects a
\* relation of another kind with ErrInvalidRelationType and writes nothing.
\* Hence dispatching a relation of kind K writes at most that one row, and
\* only into the relation table of K.
C38_KindConsistentDispatch ==
    /\ \A f \in AllFactories : \A id \in PolicyIDs : \A e \in EntityIDs(db) :
          LET rel == FactoryCreateRelation(f, id, e)
          IN rel.rel = f.kind /\ rel.Policy = id /\ rel.Entity = e
    /\ \A relation \in RelationPool :
          /\ DetectAndGetStrategy(NewRelationStrategyRegistry, relation)
               = IF relation.rel \in KindSet
                 THEN [strategy |-> Strategy(relation.rel, 0), err |-> "nil"]
                 ELSE [strategy |-> NoStrategy, err |-> ErrInvalidRelationType]
          /\ DetectAndGetStrategy(strategyRegistry, relation)
               = IF relation.rel \in KindSet
                 THEN [strategy |-> strategyRegistry[relation.rel], err |-> "nil"]
                 ELSE [strategy |-> NoStrategy, err |-> ErrInvalidRelationType]
          /\ relation.rel \in KindSet =>
               DetectAndGetStrategy(Without(strategyRegistry, relation.rel), relation)
                 = [strategy |-> NoStrategy, err |-> ErrInvalidRelationType]
          /\ \A s \in AllStrategies :
                s.kind # relation.rel =>
                   StrategyPersistRelation(s, relation, db)
                     = [db |-> db, err |-> ErrInvalidRelationType]
          /\ relation.rel \in KindSet =>
               LET r == createPolicyRelationOptimized(relation, db)
                   row == CreateRelation(relation.Policy, relation.Entity)
               IN /\ r.db.policy = db.policy
                  /\ r.db.ent = db.ent
                  /\ \A k \in KindSet \ {relation.rel} : r.db.rel[k] = db.rel[k]
                  /\ db.rel[relation.rel] \subseteq r.db.rel[relation.rel]
                  /\ r.db.rel[relation.rel] \subseteq db.rel[relation.rel] \cup {row}
                  /\ r.err = "nil" => row \in r.db.rel[relation.rel]

\* createPolicyRelation has returned nil after writing, into the relation
\* table of the kind it was called for, a row that no Create wrote
C38_Witness ==
    /\ res.op = "createPolicyRelation"
    /\ res.err = "nil"
    /\ res.arg[3] \in KindSet
    /\ CreateRelation(res.arg[1], res.arg[2]) \in db.rel[res.arg[3]]
    /\ \A o \in origin :
          o.ID = res.arg[1] =>
             \A t \in Range(Items(o, res.arg[3])) :
                 Sha256Hex(sanitizeTemplate(t)) # res.arg[2]
    /\ \A k \in KindSet \ {res.arg[3]} :
          CreateRelation(res.arg[1], res.arg[2]) \notin db.rel[k]

\* What holds of the two registries in one state
RegistrySemantics ==
    /\ DOMAIN NewEntityFactoryRegistry = KindSet
    /\ DOMAIN NewRelationStrategyRegistry = KindSet
    /\ \A k \in KindSet :
          /\ NewEntityFactoryRegistry[k].kind = k
          /\ NewRelationStrategyRegistry[k].kind = k
    /\ ncalls = 0 =>
          /\ factoryRegistry = NewEntityFactoryRegistry
          /\ strategyRegistry = NewRelationStrategyRegistry
    /\ \A t \in TypePool \cup {"nonexistent"} :
          /\ GetFactory(factoryRegistry, t)
               = IF t \in DOMAIN factoryRegistry
                 THEN [factory |-> factoryRegistry[t], exists |-> TRUE]
                 ELSE [factory |-> NoFactory, exists |-> FALSE]
          /\ GetStrategy(strategyRegistry, t)
               = IF t \in DOMAIN strategyRegistry
                 THEN [strategy |-> strategyRegistry[t], exists |-> TRUE]
                 ELSE [strategy |-> NoStrategy, exists |-> FALSE]
    /\ res.op = "RegisterFactory" =>
          GetFactory(factoryRegistry, res.arg[1])
            = [factory |-> res.arg[2], exists |-> TRUE]
    /\ res.op = "RegisterStrategy" =>
          GetStrategy(strategyRegistry, res.arg[1])
            = [strategy |-> res.arg[2], exists |-> TRUE]
    /\ res.op = "FactorySupportedTypes" =>
          \A types \in res.policies :
              /\ Range(types) = DOMAIN factoryRegistry
              /\ Len(types) = Cardinality(DOMAIN factoryRegistry)
    /\ res.op = "StrategySupportedTypes" =>
          \A types \in res.policies :
              /\ Range(types) = DOMAIN strategyRegistry
              /\ Len(types) = Cardinality(DOMAIN strategyRegistry)

\* The keys a step registers in the factory and in the strategy registry
RegisteredFactoryKeys == IF res'.op = "RegisterFactory" THEN {res'.arg[1]} ELSE {}
RegisteredStrategyKeys == IF res'.op = "RegisterStrategy" THEN {res'.arg[1]} ELSE {}

\* C39: registry semantics.  A new EntityFactoryRegistry and a new
\* RelationStrategyRegistry contain exactly the types subject, action and
\* resource; Get of an unregistered type reports 'not exists'; after
\* Register(t, x), Get(t) returns the instance x, also when t was
\* registered before; GetSupportedTypes lists exactly the registered keys,
\* each once; and a step changes a registry only by the key it registers.
C39_RegistrySemantics ==
    [][/\ RegistrySemantics
       /\ RegistrySemantics'
       /\ DOMAIN factoryRegistry' = DOMAIN factoryRegistry \cup RegisteredFactoryKeys
       /\ DOMAIN strategyRegistry' = DOMAIN strategyRegistry \cup RegisteredStrategyKeys
       /\ \A k \in DOMAIN factoryRegistry \ RegisteredFactoryKeys :
             factoryRegistry'[k] = factoryRegistry[k]
       /\ \A k \in DOMAIN strategyRegistry \ RegisteredStrategyKeys :
             strategyRegistry'[k] = strategyRegistry[k]]_vars

\* A second subject factory has just replaced the one of the new registry,
\* after a registration under the key 'custom'
C39_Witness ==
    /\ res.op = "RegisterFactory"
    /\ res.arg = <<itemTypeSubject, Factory(itemTypeSubject, 1)>>
    /\ GetFactory(factoryRegistry, itemTypeSubject).factory = Factory(itemTypeSubject, 1)
    /\ NewEntityFactoryRegistry[itemTypeSubject] # Factory(itemTypeSubject, 1)
    /\ DOMAIN factoryRegistry = KindSet \cup {"custom"}

====
